---- MODULE Spec2Model ----
(***************************************************************************)
(* GitLab repository analyzer: the concurrent scan orchestrator            *)
(* (GitLabScanner.scan, the timeout decorator wrapped around               *)
(* _scan_project) and the Repository record's merge rule                   *)
(* (Repository.add_technology).                                            *)
(*                                                                         *)
(* Threads of the orchestrator:                                            *)
(*   collector    the thread running scan() (lines 90-150)                 *)
(*   pool worker  a ThreadPoolExecutor thread running timeout.wrapper      *)
(*                for one project (utils.py 33-54)                         *)
(*   scan thread  the daemon thread the wrapper starts, running the        *)
(*                undecorated _scan_project (utils.py 37-45)               *)
(* A remote fetch that blocks is a scan thread that takes no further step. *)
(* Spec leaves the speed of the scan threads open: a join may time out at  *)
(* any moment its scan thread is alive.  SpecTimed adds a wall clock       *)
(* advancing in steps of TickStep seconds; the clock of a scan thread is   *)
(* followed until the decorator's seconds have passed.                     *)
(***************************************************************************)
EXTENDS Integers, Sequences, FiniteSets, TLC

\* ------------------------------------------------------------- bounds
MaxRepos == 2          \* most projects the group lists
MaxFiles == 1          \* most items in one repository tree
MaxCalls == 2          \* most add_technology calls on the record
TickStep == 15         \* seconds per clock tick
MaxSegments == 4       \* most segments of a captured path
MaxCaptures == 3       \* most pattern matches in the files of one analysis
MaxDataRepos == 3      \* most repositories in repos_data
MaxEntries == 2        \* most dependencies in one manifest
MaxManifests == 2      \* most manifests in one repository
MaxSummaryRepos == 2   \* most records handed to generate_summary
MaxSummaryCalls == 2   \* most generate_summary calls on one list
MaxConfigSteps == 2    \* most config loads and menu visits before scan()
MaxTreeItems == 3      \* most items in the tree followed file by file
MaxEndpoints == 2      \* most paths in the endpoint index of one matching call
MaxDetectors == 2      \* most detectors run on one file
MaxScans == 2          \* most scan() calls on one GitLabScanner
MaxConfigs == 2        \* most Config objects made
MaxConfigCalls == 4    \* most constructions and method calls on Config objects

\* -------------------------------------------------- program constants
DecoratorSeconds == 30           \* @timeout(30) on _scan_project
DefaultTimeoutSeconds == 30      \* Config.DEFAULT_CONFIG scanning.timeout_seconds
DefaultConcurrentScans == 5      \* Config.DEFAULT_CONFIG scanning.concurrent_scans
MinConcurrentScans == 1          \* lowest value the performance menu stores
MinTimeoutSeconds == 10          \* lowest value the performance menu stores
TopCount == 10                   \* generate_summary: most_common(10)
MaxConcurrentScans == 20         \* highest value the performance menu stores
MaxTimeoutSeconds == 300         \* highest value the performance menu stores

\* ------------------------------------------------------ input domains
ProjectIds == 1..MaxRepos
TimeoutChoices == {MinTimeoutSeconds, DefaultTimeoutSeconds}
ConcurrencyChoices == {MinConcurrentScans, DefaultConcurrentScans}
AnalyzerConfigs == {{"connections", "documentation"},
                    {"connections", "dependencies", "documentation"}}

\* add_technology arguments: None is "None"; a confidence is in tenths
TechCategories == {"backend", "custom"}
TechNames == {"flask", "django"}
Confidences == {5, 8, 10}
Versions == {"None", "1.0", "2.0"}
Paths == {"None", "app.py"}
DetailsChoices == {<<>>, [k \in {"matches"} |-> "m1"]}

VARIABLES
    config,         \* Config: concurrent_scans, timeout_seconds, analyzers
    pc,             \* where the collector is in scan()
    projects,       \* len(projects): the projects are 1..projects
    max_workers,    \* scan(): max_workers
    submitted,      \* projects submitted to the executor so far
    future,         \* per project: state of its future / its pool worker
    thread,         \* per project: state of its scan thread
    pos,            \* per project: index of the tree item the scan thread is at
    result,         \* per project: the wrapper's result[0] cell
    elapsed,        \* per project: seconds its scan thread has been running
    record,         \* per project: the Repository the scan thread builds
    repositories,   \* GitLabScanner.repositories (project ids, append order)
    completed,      \* scan(): completed
    collected,      \* futures the as_completed loop has handled
    log,            \* messages printed
    analyzer_idx,   \* _run_cross_repo_analysis: analyzers already run
    raised,         \* exception that left scan(), or "none"
    technologies,   \* Repository.technologies of one record
    call,           \* arguments of the last add_technology call
    max_supplied,   \* per (category, name): highest confidence ever passed in
    ncalls,         \* add_technology calls made
    path_pc,        \* path normalization: "idle", "input", "once", "twice"
    template,       \* the segments of the path being normalized
    spelling,       \* how its parameter segments are written
    raw_path,       \* the path string a pattern captured
    normalized,     \* _normalize_path(raw_path)
    renormalized,   \* _normalize_path(normalized)
    conn_pc,        \* where ConnectionAnalyzer.analyze is
    conn_repos,     \* the list analyze() is called with
    api_endpoints,  \* analyze: api_endpoints, normalized path -> infos
    apis,           \* per repository: Repository.apis (paths)
    dependencies,   \* per repository: Repository.dependencies
    dep_pc,         \* which DependencyAnalyzer method is called, and whether it is done
    repos_data,     \* find_cross_repo_dependencies: repos_data, in key order
    cross_repo_deps, \* find_cross_repo_dependencies: the dict returned
    dep_files,      \* analyze_repository: the manifests found
    dep_result,     \* analyze_repository: result
    sum_repos,      \* generate_summary: repositories
    summary,        \* the structure the last generate_summary call returned
    sum_calls,      \* generate_summary calls made
    cfg_steps,      \* config files loaded and performance menus used
    files_pc,       \* where _scan_repository_files is for one record
    detectors,      \* GitLabScanner.detectors, in load order
    tree,           \* the repository tree: per item, extension match and fetch outcome
    item,           \* tree items the loop has been through
    scan_record,    \* the Repository being filled: analyzed_files, scanned
    fetched,        \* tree items files.get was called for
    processed,      \* tree items _process_file was called for
    detect_calls,   \* the detect calls made: <<tree item, detector>>
    match_pc,       \* whether _find_matching_endpoints has been called
    match_client,   \* _find_matching_endpoints: client_path
    match_index,    \* _find_matching_endpoints: endpoints, in dict order
    matched,        \* _find_matching_endpoints: the list returned
    detect_pc,      \* whether _process_file has run the detectors on the file
    reports,        \* per detector, in list order: the add_technology call it makes
    scan_calls,     \* scan() calls that have ended on this GitLabScanner
    DEFAULT_CONFIG, \* Config.DEFAULT_CONFIG: the section dicts of the class
    instances,      \* per Config object: the section dicts of its own in self.config
    config_calls    \* constructions and method calls made on Config objects

scanVars == <<config, pc, projects, max_workers, submitted, future, thread, pos,
              result, elapsed, record, repositories, completed, collected, log,
              analyzer_idx, raised>>
techVars == <<technologies, call, max_supplied, ncalls>>
pathVars == <<path_pc, template, spelling, raw_path, normalized, renormalized>>
connVars == <<conn_pc, conn_repos, api_endpoints, apis, dependencies>>
depVars == <<dep_pc, repos_data, cross_repo_deps, dep_files, dep_result>>
summaryVars == <<sum_repos, summary, sum_calls>>
filesVars == <<files_pc, detectors, tree, item, scan_record, fetched, processed, detect_calls>>
matchVars == <<match_pc, match_client, match_index, matched>>
detectVars == <<detect_pc, reports>>
defaultsVars == <<DEFAULT_CONFIG, instances, config_calls>>
restVars == <<detectVars, scan_calls, defaultsVars>>
lateVars == <<filesVars, matchVars, restVars>>
pureVars == <<pathVars, connVars, depVars, summaryVars, cfg_steps, lateVars>>
nonPathVars == <<scanVars, techVars, connVars, depVars, summaryVars, cfg_steps, lateVars>>
nonConnVars == <<scanVars, techVars, pathVars, depVars, summaryVars, cfg_steps, lateVars>>
nonDepVars == <<scanVars, techVars, pathVars, connVars, summaryVars, cfg_steps, lateVars>>
nonSummaryVars == <<scanVars, techVars, pathVars, connVars, depVars, cfg_steps, lateVars>>
earlyVars == <<scanVars, techVars, pathVars, connVars, depVars, summaryVars, cfg_steps>>
nonFilesVars == <<earlyVars, matchVars, restVars>>
nonMatchVars == <<earlyVars, filesVars, restVars>>
nonDetectVars == <<scanVars, call, max_supplied, ncalls, pathVars, connVars, depVars,
                   summaryVars, cfg_steps, filesVars, matchVars, scan_calls,
                   defaultsVars>>
nonDefaultsVars == <<earlyVars, filesVars, matchVars, detectVars, scan_calls>>
vars == <<scanVars, techVars, pureVars>>

Min(a, b) == IF a <= b THEN a ELSE b

Projects == 1..projects

\* Repository.__init__: a fresh record
NewRecord == [created |-> TRUE, scanned |-> FALSE, total_files |-> 0,
              analyzed_files |-> <<>>, analyzed_by |-> {}]
NoRecord == [created |-> FALSE, scanned |-> FALSE, total_files |-> 0,
             analyzed_files |-> <<>>, analyzed_by |-> {}]

\* GitLabScanner._load_analyzers: the enabled analyzers, in load order
Analyzers ==
    LET all == <<"connections", "dependencies", "documentation">>
    IN  SelectSeq(all, LAMBDA a : a \in config.analyzers)

\* Analyzer classes that define analyze(repositories)
HasAnalyze(a) == a \in {"connections", "documentation"}

InRepositories(p) == \E i \in 1..Len(repositories) : repositories[i] = p

Alive(p) == thread[p] \in {"project", "tree", "files"}
FutureDone(p) == future[p] \in {"repo", "none", "timeout"}
Busy == {p \in ProjectIds : future[p] \in {"running", "check"}}

\* Repository.__init__ lines 28-34: the technologies of a fresh record
TechInit ==
    /\ technologies = [c \in {"frontend", "backend", "database", "infrastructure", "cicd"} |-> <<>>]
    /\ call = [category |-> "", name |-> "", confidence |-> 0, version |-> "None",
               path |-> "None", details |-> <<>>]
    /\ max_supplied = [c \in TechCategories, n \in TechNames |-> 0]
    /\ ncalls = 0

\* GitLabScanner.__init__: the scanner before scan() is called
ScanInit ==
    /\ pc = "get_group"
    /\ projects = 0
    /\ max_workers = 0
    /\ submitted = 0
    /\ future = [p \in ProjectIds |-> "unsubmitted"]
    /\ thread = [p \in ProjectIds |-> "unstarted"]
    /\ pos = [p \in ProjectIds |-> 0]
    /\ result = [p \in ProjectIds |-> "unset"]
    /\ elapsed = [p \in ProjectIds |-> 0]
    /\ record = [p \in ProjectIds |-> NoRecord]
    /\ repositories = <<>>
    /\ completed = 0
    /\ collected = {}
    /\ log = {}
    /\ analyzer_idx = 0
    /\ raised = "none"

\* no path is being normalized
PathIdle ==
    /\ path_pc = "idle"
    /\ template = <<>>
    /\ spelling = "colon"
    /\ raw_path = <<>>
    /\ normalized = <<>>
    /\ renormalized = <<>>

\* no connection analysis is running
ConnIdle ==
    /\ conn_pc = "idle"
    /\ conn_repos = <<>>
    /\ api_endpoints = <<>>
    /\ apis = <<>>
    /\ dependencies = <<>>

\* no DependencyAnalyzer method is running
DepIdle ==
    /\ dep_pc = "idle"
    /\ repos_data = <<>>
    /\ cross_repo_deps = <<>>
    /\ dep_files = <<>>
    /\ dep_result = <<>>

\* generate_summary has not been called
SummaryIdle ==
    /\ sum_repos = <<>>
    /\ summary = <<>>
    /\ sum_calls = 0

\* _scan_repository_files is not being followed
FilesIdle ==
    /\ files_pc = "idle"
    /\ detectors = <<>>
    /\ tree = <<>>
    /\ item = 0
    /\ scan_record = [analyzed_files |-> <<>>, scanned |-> FALSE]
    /\ fetched = <<>>
    /\ processed = <<>>
    /\ detect_calls = <<>>

\* _find_matching_endpoints is not being followed
MatchIdle ==
    /\ match_pc = "idle"
    /\ match_client = <<>>
    /\ match_index = <<>>
    /\ matched = <<>>

\* _process_file has no detectors to run
DetectIdle ==
    /\ detect_pc = "idle"
    /\ reports = <<>>

\* config.py lines 14-42: the sections of DEFAULT_CONFIG followed here,
\* with the values the class statement gives them
DocumentedDefaults ==
    [scanning |-> [concurrent_scans |-> DefaultConcurrentScans,
                   timeout_seconds |-> DefaultTimeoutSeconds],
     detectors |-> [custom_patterns |-> <<>>]]

\* the class as defined, and no Config object made yet
DefaultsIdle ==
    /\ DEFAULT_CONFIG = DocumentedDefaults
    /\ instances = <<>>
    /\ config_calls = 0

\* nothing of the parts followed on their own is running, and scan() has
\* not been called before
RestIdle == DetectIdle /\ scan_calls = 0 /\ DefaultsIdle

LateIdle == FilesIdle /\ MatchIdle /\ RestIdle

PureIdle == PathIdle /\ ConnIdle /\ DepIdle /\ SummaryIdle /\ cfg_steps = 0 /\ LateIdle

\* GitLabScanner.__init__ with a Config; nothing in scan() but the argument
\* passed to _scan_project reads timeout_seconds, left at its default here
Init ==
    /\ config \in [concurrent_scans : ConcurrencyChoices,
                   timeout_seconds : {DefaultTimeoutSeconds},
                   analyzers : AnalyzerConfigs]
    /\ ScanInit
    /\ TechInit
    /\ PureIdle

\* GitLabScanner.__init__ with a Config, any timeout_seconds configured
InitTimed ==
    /\ config \in [concurrent_scans : ConcurrencyChoices,
                   timeout_seconds : TimeoutChoices,
                   analyzers : AnalyzerConfigs]
    /\ ScanInit
    /\ TechInit
    /\ PureIdle

\* ------------------------------------------------ collector: scan()

\* scan() lines 97-103: resolve the group
GetGroup ==
    /\ pc = "get_group"
    /\ \E ok \in BOOLEAN :
        IF ok
        THEN /\ pc' = "list_projects"
             /\ log' = log
        ELSE /\ pc' = "returned"
             /\ log' = log \cup {<<"group_error", 0>>}
    /\ UNCHANGED <<config, projects, max_workers, submitted, future, thread, pos,
                   result, elapsed, record, repositories, completed, collected,
                   analyzer_idx, raised, techVars, pureVars>>

\* scan() lines 105-114: list the projects of the group
ListProjects ==
    /\ pc = "list_projects"
    /\ \/ \E n \in 0..MaxRepos :
            /\ projects' = n
            /\ pc' = "make_pool"
            /\ log' = log
       \/ /\ projects' = projects
          /\ pc' = "returned"
          /\ log' = log \cup {<<"projects_error", 0>>}
    /\ UNCHANGED <<config, max_workers, submitted, future, thread, pos,
                   result, elapsed, record, repositories, completed, collected,
                   analyzer_idx, raised, techVars, pureVars>>

\* scan() lines 117 and 125: max_workers, and ThreadPoolExecutor(max_workers),
\* whose constructor raises ValueError unless max_workers > 0
MakePool ==
    /\ pc = "make_pool"
    /\ max_workers' = Min(config.concurrent_scans, projects)
    /\ IF max_workers' <= 0
       THEN pc' = "raised" /\ raised' = "ValueError"
       ELSE pc' = "pool" /\ raised' = raised
    /\ UNCHANGED <<config, projects, submitted, future, thread, pos, result,
                   elapsed, record, repositories, completed, collected, log,
                   analyzer_idx, techVars, pureVars>>

\* scan() lines 127-130: executor.submit for the next project
Submit ==
    /\ pc = "pool"
    /\ submitted < projects
    /\ submitted' = submitted + 1
    /\ future' = [future EXCEPT ![submitted + 1] = "pending"]
    /\ UNCHANGED <<config, pc, projects, max_workers, thread, pos, result,
                   elapsed, record, repositories, completed, collected, log,
                   analyzer_idx, raised, techVars, pureVars>>

\* Collect, but the except branch keeps the project of a scan that raised
CollectKeepsRaised(p) ==
    /\ pc = "pool"
    /\ submitted = projects
    /\ p \in Projects
    /\ p \notin collected
    /\ FutureDone(p)
    /\ collected' = collected \cup {p}
    /\ completed' = completed + 1
    /\ CASE future[p] = "repo" ->
              /\ repositories' = Append(repositories, p)
              /\ log' = log \cup {<<"scanned", p>>}
         [] future[p] = "none" ->
              /\ repositories' = repositories
              /\ log' = log \cup {<<"failed", p>>}
         [] future[p] = "timeout" ->
              /\ repositories' = Append(repositories, p)
              /\ log' = log \cup {<<"error", p>>}
    /\ UNCHANGED <<config, pc, projects, max_workers, submitted, future, thread,
                   pos, result, elapsed, record, analyzer_idx, raised, techVars, pureVars>>

\* scan() lines 133-145: one iteration of the as_completed loop
Collect(p) ==
    /\ pc = "pool"
    /\ submitted = projects
    /\ p \in Projects
    /\ p \notin collected
    /\ FutureDone(p)
    /\ collected' = collected \cup {p}
    /\ completed' = completed + 1
    /\ CASE future[p] = "repo" ->
              /\ repositories' = Append(repositories, p)
              /\ log' = log \cup {<<"scanned", p>>}
         [] future[p] = "none" ->
              /\ repositories' = repositories
              /\ log' = log \cup {<<"failed", p>>}
         [] future[p] = "timeout" ->
              /\ repositories' = repositories
              /\ log' = log \cup {<<"error", p>>}
    /\ UNCHANGED <<config, pc, projects, max_workers, submitted, future, thread,
                   pos, result, elapsed, record, analyzer_idx, raised, techVars, pureVars>>

\* ExitPool, but leaving once every project is submitted
ExitPoolEarly ==
    /\ pc = "pool"
    /\ submitted = projects
    /\ pc' = "analysis"
    /\ UNCHANGED <<config, projects, max_workers, submitted, future, thread, pos,
                   result, elapsed, record, repositories, completed, collected,
                   log, analyzer_idx, raised, techVars, pureVars>>

\* scan() lines 133 and 125: the as_completed loop ends when every future has
\* been handled; leaving the with block waits for the pool workers
ExitPool ==
    /\ pc = "pool"
    /\ submitted = projects
    /\ collected = Projects
    /\ Busy = {}
    /\ pc' = "analysis"
    /\ UNCHANGED <<config, projects, max_workers, submitted, future, thread, pos,
                   result, elapsed, record, repositories, completed, collected,
                   log, analyzer_idx, raised, techVars, pureVars>>

\* the records an analyzer's analyze(self.repositories) writes to
Analyzed(a) ==
    [p \in ProjectIds |->
        IF \E i \in 1..Len(repositories) : repositories[i] = p
        THEN [record[p] EXCEPT !.analyzed_by = @ \cup {a}]
        ELSE record[p]]

\* _run_cross_repo_analysis lines 257-258: the next analyzer
RunAnalyzer ==
    /\ pc = "analysis"
    /\ repositories # <<>>
    /\ analyzer_idx < Len(Analyzers)
    /\ LET a == Analyzers[analyzer_idx + 1]
       IN  IF HasAnalyze(a)
           THEN /\ record' = Analyzed(a)
                /\ analyzer_idx' = analyzer_idx + 1
                /\ UNCHANGED <<pc, raised>>
           ELSE /\ pc' = "raised"
                /\ raised' = "AttributeError"
                /\ UNCHANGED <<record, analyzer_idx>>
    /\ UNCHANGED <<config, projects, max_workers, submitted, future, thread, pos,
                   result, elapsed, repositories, completed, collected, log,
                   techVars, pureVars>>

\* _run_cross_repo_analysis lines 252-253 or loop end, then scan() line 150
Finish ==
    /\ pc = "analysis"
    /\ repositories = <<>> \/ analyzer_idx = Len(Analyzers)
    /\ pc' = "returned"
    /\ log' = log \cup {<<"completed", Len(repositories)>>}
    /\ UNCHANGED <<config, projects, max_workers, submitted, future, thread, pos,
                   result, elapsed, record, repositories, completed, collected,
                   analyzer_idx, raised, techVars, pureVars>>

\* ------------------------------------- pool worker: timeout.wrapper

\* StartTask, but with no limit on the number of workers
StartTaskUnbounded(p) ==
    /\ future[p] = "pending"
    /\ \A q \in ProjectIds : q < p => future[q] # "pending"
    /\ future' = [future EXCEPT ![p] = "running"]
    /\ thread' = [thread EXCEPT ![p] = "project"]
    /\ UNCHANGED <<config, pc, projects, max_workers, submitted, pos, result,
                   elapsed, record, repositories, completed, collected, log,
                   analyzer_idx, raised, techVars, pureVars>>

\* the executor hands the oldest queued task to an idle worker; the wrapper
\* starts the scan thread (utils.py 43-45) and joins it
StartTask(p) ==
    /\ future[p] = "pending"
    /\ \A q \in ProjectIds : q < p => future[q] # "pending"
    /\ Cardinality(Busy) < max_workers
    /\ future' = [future EXCEPT ![p] = "running"]
    /\ thread' = [thread EXCEPT ![p] = "project"]
    /\ UNCHANGED <<config, pc, projects, max_workers, submitted, pos, result,
                   elapsed, record, repositories, completed, collected, log,
                   analyzer_idx, raised, techVars, pureVars>>

\* utils.py line 46: thread.join(seconds) returns, the thread having ended
\* or the join having timed out
JoinReturns(p) ==
    /\ future[p] = "running"
    /\ future' = [future EXCEPT ![p] = "check"]
    /\ UNCHANGED <<config, pc, projects, max_workers, submitted, thread, pos,
                   result, elapsed, record, repositories, completed, collected,
                   log, analyzer_idx, raised, techVars, pureVars>>

\* JoinReturnsTimed, but joining without a timeout
JoinWithoutTimeout(p) ==
    /\ ~Alive(p)
    /\ JoinReturns(p)

\* utils.py line 46 under the wall clock: thread.join(seconds) returns, the
\* thread having ended or the decorator's seconds having passed
JoinReturnsTimed(p) ==
    /\ ~Alive(p) \/ elapsed[p] >= DecoratorSeconds
    /\ JoinReturns(p)

\* utils.py lines 48-54: raise TimeoutError if the thread is alive, else
\* return result[0] (the scan function catches every Exception itself)
WrapperCheck(p) ==
    /\ future[p] = "check"
    /\ future' = [future EXCEPT ![p] =
                    IF Alive(p) THEN "timeout"
                    ELSE IF result[p] = "repo" THEN "repo" ELSE "none"]
    /\ UNCHANGED <<config, pc, projects, max_workers, submitted, thread, pos,
                   result, elapsed, record, repositories, completed, collected,
                   log, analyzer_idx, raised, techVars, pureVars>>

\* --------------------------------------- scan thread: _scan_project

\* _scan_project lines 166-169 and 179-188: fetch the full project and create
\* the Repository; a failure is caught and the function returns None
GetProject(p) ==
    /\ thread[p] = "project"
    /\ \E ok \in BOOLEAN :
        IF ok
        THEN /\ record' = [record EXCEPT ![p] = NewRecord]
             /\ thread' = [thread EXCEPT ![p] = "tree"]
             /\ UNCHANGED result
        ELSE /\ thread' = [thread EXCEPT ![p] = "done"]
             /\ result' = [result EXCEPT ![p] = "none"]
             /\ UNCHANGED record
    /\ UNCHANGED <<config, pc, projects, max_workers, submitted, future, pos,
                   elapsed, repositories, completed, collected, log,
                   analyzer_idx, raised, techVars, pureVars>>

\* _scan_repository_files lines 197-205 and 235-236: list the tree; a failure
\* is caught here, printed, and _scan_repository_files returns normally
ListTree(p) ==
    /\ thread[p] = "tree"
    /\ \/ \E n \in 0..MaxFiles :
            /\ record' = [record EXCEPT ![p].total_files = n]
            /\ log' = log
       \/ /\ record' = record
          /\ log' = log \cup {<<"tree_error", p>>}
    /\ thread' = [thread EXCEPT ![p] = "files"]
    /\ UNCHANGED <<config, pc, projects, max_workers, submitted, future, pos,
                   result, elapsed, repositories, completed, collected,
                   analyzer_idx, raised, techVars, pureVars>>

\* _scan_repository_files lines 212-233: the next tree item: skipped by the
\* extension filter, fetched and processed, or its fetch failing
ProcessFile(p) ==
    /\ thread[p] = "files"
    /\ pos[p] < record[p].total_files
    /\ pos' = [pos EXCEPT ![p] = @ + 1]
    /\ \E outcome \in {"skip", "ok", "fail"} :
        record' = IF outcome = "ok"
                  THEN [record EXCEPT ![p].analyzed_files = Append(@, pos[p] + 1)]
                  ELSE record
    /\ UNCHANGED <<config, pc, projects, max_workers, submitted, future, thread,
                   result, elapsed, repositories, completed, collected, log,
                   analyzer_idx, raised, techVars, pureVars>>

\* Return, but the scan thread appends its record to the accumulator itself
ReturnAppends(p) ==
    /\ thread[p] = "files"
    /\ pos[p] = record[p].total_files
    /\ record' = [record EXCEPT ![p].scanned = TRUE]
    /\ result' = [result EXCEPT ![p] = "repo"]
    /\ thread' = [thread EXCEPT ![p] = "done"]
    /\ repositories' = Append(repositories, p)
    /\ UNCHANGED <<config, pc, projects, max_workers, submitted, future, pos,
                   elapsed, completed, collected, log,
                   analyzer_idx, raised, techVars, pureVars>>

\* _scan_project lines 175-177, then utils.py line 39: mark the record
\* scanned, return it, store it in result[0]; the thread ends
Return(p) ==
    /\ thread[p] = "files"
    /\ pos[p] = record[p].total_files
    /\ record' = [record EXCEPT ![p].scanned = TRUE]
    /\ result' = [result EXCEPT ![p] = "repo"]
    /\ thread' = [thread EXCEPT ![p] = "done"]
    /\ UNCHANGED <<config, pc, projects, max_workers, submitted, future, pos,
                   elapsed, repositories, completed, collected, log,
                   analyzer_idx, raised, techVars, pureVars>>

\* ------------------------------------------------------------ clock

\* a join whose seconds have passed returns before the clock moves on
TimerDue == \E p \in ProjectIds :
    \/ future[p] = "running" /\ elapsed[p] >= DecoratorSeconds
    \/ future[p] = "check"

Tick ==
    /\ ~TimerDue
    /\ \E p \in ProjectIds : Alive(p) /\ elapsed[p] < DecoratorSeconds
    /\ elapsed' = [p \in ProjectIds |->
                     IF Alive(p) /\ elapsed[p] < DecoratorSeconds
                     THEN elapsed[p] + TickStep ELSE elapsed[p]]
    /\ UNCHANGED <<config, pc, projects, max_workers, submitted, future, thread,
                   pos, result, record, repositories, completed, collected, log,
                   analyzer_idx, raised, techVars, pureVars>>

\* every step but the join's return
Core ==
    \/ GetGroup
    \/ ListProjects
    \/ MakePool
    \/ Submit
    \/ \E p \in ProjectIds : Collect(p)
    \/ ExitPool
    \/ RunAnalyzer
    \/ Finish
    \/ \E p \in ProjectIds : StartTask(p)
    \/ \E p \in ProjectIds : WrapperCheck(p)
    \/ \E p \in ProjectIds : GetProject(p)
    \/ \E p \in ProjectIds : ListTree(p)
    \/ \E p \in ProjectIds : ProcessFile(p)
    \/ \E p \in ProjectIds : Return(p)

Next ==
    \/ Core
    \/ \E p \in ProjectIds : JoinReturns(p)

Spec == Init /\ [][Next]_vars

NextTimed ==
    \/ Core
    \/ \E p \in ProjectIds : JoinReturnsTimed(p)
    \/ Tick

SpecTimed == InitTimed /\ [][NextTimed]_vars

\* ------------------------------------ Repository.add_technology

\* Python truth value of an optional string; of a dict
Truthy(v) == v \notin {"None", ""}
NonEmpty(d) == DOMAIN d # {}

\* dict.update: the keys of d over those of e
Update(e, d) == [k \in DOMAIN e \cup DOMAIN d |-> IF k \in DOMAIN d THEN d[k] ELSE e[k]]

\* add_technology lines 68-76: the observation built from the arguments
Technology(name, confidence, version, path, details) ==
    [name |-> name,
     confidence |-> confidence,
     detected_in |-> IF Truthy(path) THEN path ELSE "",
     version |-> version,
     extra |-> IF NonEmpty(details) THEN details ELSE <<>>]

\* ShouldUpdate, but overwriting whatever the confidence
ShouldUpdateAlways(confidence, existing) == TRUE

\* ShouldUpdate, but overwriting also on equal confidence
ShouldUpdateNotLower(confidence, existing) == confidence >= existing.confidence

\* add_technology line 82: the test guarding the update of an existing entry
ShouldUpdate(confidence, existing) == confidence > existing.confidence

\* add_technology lines 83-88: the existing observation after the update
Updated(existing, confidence, version, path, details) ==
    [existing EXCEPT
        !.confidence = confidence,
        !.detected_in = IF Truthy(path) THEN path ELSE @,
        !.version = IF Truthy(version) THEN version ELSE @,
        !.extra = IF NonEmpty(details) THEN Update(@, details) ELSE @]

\* add_technology lines 79-80: indices of the entries with this name
Matching(list, name) == {i \in 1..Len(list) : list[i].name = name}

\* the first of them, the one the loop stops at
FirstMatching(list, name) ==
    CHOOSE i \in Matching(list, name) : \A j \in Matching(list, name) : i <= j

\* add_technology lines 65-92: the technologies after the call
AddTechnologyResult(techs, category, name, confidence, version, path, details) ==
    LET withKey == IF category \in DOMAIN techs THEN techs
                   ELSE techs @@ (category :> <<>>)
        list == withKey[category]
    IN  IF Matching(list, name) # {}
        THEN LET i == FirstMatching(list, name)
             IN  IF ShouldUpdate(confidence, list[i])
                 THEN [withKey EXCEPT ![category][i] =
                          Updated(list[i], confidence, version, path, details)]
                 ELSE withKey
        ELSE [withKey EXCEPT ![category] =
                 Append(list, Technology(name, confidence, version, path, details))]

\* Repository.add_technology, called by a detector
AddTechnology ==
    /\ ncalls < MaxCalls
    /\ \E category \in TechCategories, name \in TechNames,
          confidence \in Confidences, version \in Versions,
          path \in Paths, details \in DetailsChoices :
        /\ technologies' = AddTechnologyResult(technologies, category, name,
                                               confidence, version, path, details)
        /\ call' = [category |-> category, name |-> name,
                    confidence |-> confidence, version |-> version,
                    path |-> path, details |-> details]
        /\ max_supplied' = [max_supplied EXCEPT ![category, name] =
                              IF confidence > @ THEN confidence ELSE @]
    /\ ncalls' = ncalls + 1
    /\ UNCHANGED <<scanVars, pureVars>>

DefaultConfig == [concurrent_scans |-> DefaultConcurrentScans,
                  timeout_seconds |-> DefaultTimeoutSeconds,
                  analyzers |-> {"connections", "dependencies", "documentation"}]

\* the scanner and a fresh record, before any call
BaseIdle == config = DefaultConfig /\ ScanInit /\ TechInit

\* nothing but the part a specification follows is running
EarlyIdle ==
    BaseIdle /\ cfg_steps = 0 /\ PathIdle /\ ConnIdle /\ DepIdle /\ SummaryIdle

InitTech == BaseIdle /\ PureIdle

NextTech == AddTechnology

SpecTech == InitTech /\ [][NextTech]_vars

\* the steps the code's scheduling guarantees: the collector, the pool
\* workers and the clock keep running; a scan thread may block for ever in
\* a remote fetch, so no step of it is guaranteed
Fairness ==
    /\ WF_vars(GetGroup) /\ WF_vars(ListProjects) /\ WF_vars(MakePool)
    /\ WF_vars(Submit) /\ WF_vars(ExitPool)
    /\ WF_vars(RunAnalyzer) /\ WF_vars(Finish)
    /\ WF_vars(Tick)
    /\ \A p \in ProjectIds :
        /\ WF_vars(Collect(p))
        /\ WF_vars(StartTask(p))
        /\ WF_vars(JoinReturnsTimed(p))
        /\ WF_vars(WrapperCheck(p))

FairSpecTimed == InitTimed /\ [][NextTimed]_vars /\ Fairness

\* ------------------------------- ConnectionAnalyzer._normalize_path
\* A string is a sequence of one-character strings.

\* the placeholder the three substitutions write
ParamToken == <<":", "p", "a", "r", "a", "m">>

\* str.rstrip(c)
RECURSIVE RStrip(_, _)
RStrip(s, c) ==
    IF Len(s) > 0 /\ s[Len(s)] = c THEN RStrip(SubSeq(s, 1, Len(s) - 1), c) ELSE s

\* t in s
Contains(s, t) ==
    \E i \in 1..(Len(s) - Len(t) + 1) : SubSeq(s, i, i + Len(t) - 1) = t

\* the length of the longest prefix of s without the character c
RECURSIVE RunLen(_, _)
RunLen(s, c) ==
    IF s = <<>> \/ s[1] = c THEN 0 ELSE 1 + RunLen(Tail(s), c)

\* str.split(c)
RECURSIVE Split(_, _)
Split(s, c) ==
    LET n == RunLen(s, c)
    IN  IF n = Len(s) THEN <<s>>
        ELSE <<SubSeq(s, 1, n)>> \o Split(SubSeq(s, n + 2, Len(s)), c)

\* c.join(parts)
RECURSIVE Join(_, _)
Join(parts, c) ==
    IF parts = <<>> THEN <<>>
    ELSE IF Len(parts) = 1 THEN parts[1]
    ELSE parts[1] \o <<c>> \o Join(Tail(parts), c)

\* '/' + '/'.join(path.split('/')[3:])
DropSchemeAndHost(s) ==
    LET parts == Split(s, "/")
    IN  <<"/">> \o Join(SubSeq(parts, 4, Len(parts)), "/")

\* re.sub(r':[^/]+', ':param', s): a colon and the rest of its segment
RECURSIVE SubColon(_)
SubColon(s) ==
    IF s = <<>> THEN <<>>
    ELSE IF s[1] = ":" /\ Len(s) >= 2 /\ s[2] # "/"
         THEN ParamToken \o SubColon(SubSeq(s, RunLen(Tail(s), "/") + 2, Len(s)))
         ELSE <<s[1]>> \o SubColon(Tail(s))

\* a bracket substitution that rewrites nothing
SubBracketNone(s, open, close) == s

\* re.sub(open + '[^' + close + ']+' + close, ':param', s): an opening
\* bracket, at least one character that is not the closing bracket, and
\* the closing bracket
RECURSIVE SubBracket(_, _, _)
SubBracket(s, open, close) ==
    IF s = <<>> THEN <<>>
    ELSE LET n == RunLen(Tail(s), close)
         IN  IF s[1] = open /\ n >= 1 /\ n + 1 < Len(s)
             THEN ParamToken \o SubBracket(SubSeq(s, n + 3, Len(s)), open, close)
             ELSE <<s[1]>> \o SubBracket(Tail(s), open, close)

\* ConnectionAnalyzer._normalize_path
NormalizePath(p) ==
    LET stripped == RStrip(p, "/")
        local == IF Contains(stripped, <<":", "/", "/">>)
                 THEN DropSchemeAndHost(stripped) ELSE stripped
    IN  SubBracket(SubBracket(SubColon(local), "<", ">"), "{", "}")

\* the captured path strings: segments joined by "/"; a segment is a
\* literal ("" before a leading or after a trailing slash and after a
\* scheme, "a:" a scheme) or a parameter with a name
Literals == {<<>>, <<"a">>, <<"a", ":">>}
ParamNames == {<<"n">>, <<"i", "d">>}
Segments == [kind : {"lit"}, text : Literals] \cup [kind : {"param"}, text : ParamNames]
Spellings == {"colon", "angle", "brace"}
Templates == UNION {[1..n -> Segments] : n \in 1..MaxSegments}

\* one segment as the source file writes it
Render(seg, sp) ==
    IF seg.kind = "lit" THEN seg.text
    ELSE IF sp = "colon" THEN <<":">> \o seg.text
    ELSE IF sp = "angle" THEN <<"<">> \o seg.text \o <<">">>
    ELSE <<"{">> \o seg.text \o <<"}">>

RenderPath(t, sp) == Join([i \in 1..Len(t) |-> Render(t[i], sp)], "/")

\* a pattern has captured a path string
PathInput ==
    /\ path_pc = "input"
    /\ template \in Templates
    /\ spelling \in Spellings
    /\ raw_path = RenderPath(template, spelling)
    /\ normalized = <<>>
    /\ renormalized = <<>>

\* _find_api_connections line 200: path = self._normalize_path(path)
Normalize ==
    /\ path_pc = "input"
    /\ normalized' = NormalizePath(raw_path)
    /\ path_pc' = "once"
    /\ UNCHANGED <<template, spelling, raw_path, renormalized>>
    /\ UNCHANGED nonPathVars

\* _find_matching_endpoints line 339: the path already normalized by the
\* caller is normalized again
NormalizeAgain ==
    /\ path_pc = "once"
    /\ renormalized' = NormalizePath(normalized)
    /\ path_pc' = "twice"
    /\ UNCHANGED <<template, spelling, raw_path, normalized>>
    /\ UNCHANGED nonPathVars

NextPath == Normalize \/ NormalizeAgain

InitPath == PathInput /\ BaseIdle /\ cfg_steps = 0 /\ ConnIdle /\ DepIdle /\ SummaryIdle /\ LateIdle

SpecPath == InitPath /\ [][NextPath]_vars

\* ------------------------------------------ ConnectionAnalyzer.analyze
\* The analyzer reads each analyzed code file again and runs its patterns
\* over it; a repository is modelled with what the patterns capture in its
\* code file: endpoint paths, client-call paths and service names, in file
\* order.  The file fetch of the analyzer succeeds.

Range(s) == {s[i] : i \in 1..Len(s)}

\* str.lower() on the characters the names use
LowerChar(c) ==
    CASE c = "O" -> "o" [] c = "D" -> "d" [] c = "B" -> "b" [] OTHER -> c
Lower(s) == [i \in 1..Len(s) |-> LowerChar(s[i])]

\* s.startswith(t)
StartsWith(s, t) == Len(t) <= Len(s) /\ SubSeq(s, 1, Len(t)) = t

\* the concatenation of a sequence of sequences
RECURSIVE Flatten(_)
Flatten(ss) == IF ss = <<>> THEN <<>> ELSE Head(ss) \o Flatten(Tail(ss))

\* the injective sequences over a set: the orders a set can be iterated in
Orders(S) == {f \in [1..Cardinality(S) -> S] : \A i, j \in DOMAIN f : f[i] = f[j] => i = j}

\* an add_dependency without the membership test
AddDependencyAlways(list, name) == Append(list, name)

\* Repository.add_dependency on the list of one dependency kind
AddDependency(list, name) ==
    IF name \in Range(list) THEN list ELSE Append(list, name)

RECURSIVE AddDependencies(_, _)
AddDependencies(list, names) ==
    IF names = <<>> THEN list
    ELSE AddDependencies(AddDependency(list, Head(names)), Tail(names))

\* Repository.__init__ lines 40-44
NoDependencies == [imports |-> <<>>, services |-> <<>>, repositories |-> <<>>]

\* _extract_api_endpoints lines 137-140: endpoints[path] gets one more info
PutEndpoint(index, p, info) ==
    IF \E i \in 1..Len(index) : index[i].path = p
    THEN [i \in 1..Len(index) |->
            IF index[i].path = p
            THEN [index[i] EXCEPT !.infos = Append(@, info)] ELSE index[i]]
    ELSE Append(index, [path |-> p, infos |-> <<info>>])

\* the endpoint captures of the list, in visiting order
EndpointCaptures(repos) ==
    Flatten([i \in 1..Len(repos) |->
        [j \in 1..Len(repos[i].endpoints) |->
            [repo_id |-> repos[i].id, repo_name |-> repos[i].name,
             raw |-> repos[i].endpoints[j]]]])

RECURSIVE IndexAll(_, _)
IndexAll(index, caps) ==
    IF caps = <<>> THEN index
    ELSE IndexAll(PutEndpoint(index, NormalizePath(Head(caps).raw),
                              [repo_id |-> Head(caps).repo_id,
                               repo_name |-> Head(caps).repo_name]),
                  Tail(caps))

\* _find_matching_endpoints without the return of line 344
FindMatchingEndpointsNoReturn(client_path, endpoints) ==
    LET norm_client_path == NormalizePath(client_path)
        api == <<"/", "a", "p", "i">>
    IN  SelectSeq(endpoints, LAMBDA en :
            \/ en.path = norm_client_path
            \/ StartsWith(en.path, api) /\ Contains(norm_client_path, en.path)
            \/ StartsWith(norm_client_path, api) /\ Contains(en.path, norm_client_path))

\* ConnectionAnalyzer._find_matching_endpoints
FindMatchingEndpoints(client_path, endpoints) ==
    LET norm_client_path == NormalizePath(client_path)
        api == <<"/", "a", "p", "i">>
        exact == SelectSeq(endpoints, LAMBDA en : en.path = norm_client_path)
        loose == SelectSeq(endpoints, LAMBDA en :
            \/ StartsWith(en.path, api) /\ Contains(norm_client_path, en.path)
            \/ StartsWith(norm_client_path, api) /\ Contains(en.path, norm_client_path)
            \/ /\ StartsWith(en.path, api \o <<"/">>)
               /\ StartsWith(norm_client_path, api \o <<"/">>)
               /\ SubSeq(en.path, 6, Len(en.path))
                    = SubSeq(norm_client_path, 6, Len(norm_client_path)))
    IN  IF exact # <<>> THEN exact ELSE loose

\* _find_api_connections lines 198-211 for one captured client path: the
\* names passed to add_dependency('repositories', ...)
CallTargets(r, raw, endpoints) ==
    LET connected == FindMatchingEndpoints(NormalizePath(raw), endpoints)
        infos == Flatten([k \in 1..Len(connected) |-> connected[k].infos])
        others == SelectSeq(infos, LAMBDA info : info.repo_id # r.id)
    IN  [k \in 1..Len(others) |-> others[k].repo_name]

ApiTargets(r, endpoints) ==
    Flatten([j \in 1..Len(r.calls) |-> CallTargets(r, r.calls[j], endpoints)])

\* _find_service_connections lines 225-236
RepoNames(repos) ==
    UNION {LET parts == Split(Lower(r.name), "-")
           IN  {Lower(r.name)} \cup
               (IF Len(parts) > 1 THEN {part \in Range(parts) : Len(part) > 3} ELSE {})
           : r \in Range(repos)}

\* NameTargets, but a name of any length stands for the repositories
\* whose name contains it
NameTargetsAnyLength(r, repos, repo_name) ==
    LET hit == SelectSeq(repos, LAMBDA t :
                 /\ Contains(Lower(t.name), repo_name)
                 /\ t.id # r.id)
    IN  [k \in 1..Len(hit) |-> hit[k].name]

\* lines 272-279: the repositories a matched repo_name stands for
NameTargets(r, repos, repo_name) ==
    LET hit == SelectSeq(repos, LAMBDA t :
                 /\ \/ Lower(t.name) = repo_name
                    \/ Len(repo_name) > 5 /\ Contains(Lower(t.name), repo_name)
                 /\ t.id # r.id)
    IN  [k \in 1..Len(hit) |-> hit[k].name]

\* lines 262-279 for one captured service name
MatchTargets(r, repos, order, captured) ==
    LET service_name == Lower(captured)
    IN  Flatten([k \in 1..Len(order) |->
            IF \/ service_name = order[k]
               \/ Len(order[k]) > 5 /\ Contains(service_name, order[k])
            THEN NameTargets(r, repos, order[k]) ELSE <<>>])

\* the quoted http URLs in the file of r
HttpPrefix == <<"h", "t", "t", "p", ":", "/", "/">>
QuotedUrls(r) == {u \in Range(r.endpoints) \cup Range(r.calls) : StartsWith(u, HttpPrefix)}

\* lines 282-293: a quoted URL that holds a long repo_name
UrlTargets(r, repos, order) ==
    Flatten([k \in 1..Len(order) |->
        IF /\ Len(order[k]) > 5
           /\ \E u \in QuotedUrls(r) :
                Contains(SubSeq(u, Len(HttpPrefix) + 1, Len(u)), order[k])
        THEN LET hit == SelectSeq(repos, LAMBDA t :
                          Contains(Lower(t.name), order[k]) /\ t.id # r.id)
             IN  [j \in 1..Len(hit) |-> hit[j].name]
        ELSE <<>>])

ServiceTargets(r, repos, order) ==
    Flatten([j \in 1..Len(r.services) |-> MatchTargets(r, repos, order, r.services[j])])
    \o UrlTargets(r, repos, order)

\* the inputs: repository names, captured paths and captured service names
RepoNameChoices == {<<"a", "p", "i">>,
                    <<"O", "r", "d", "e", "r", "s">>,
                    <<"o", "r", "d", "e", "r", "s", "-", "a", "p", "i">>}
RawPaths == {<<"/", "v", "/", "a", "p", "i", "/", "x">>,
             HttpPrefix \o <<"h">>,
             HttpPrefix \o <<"o", "r", "d", "e", "r", "s", "/", "a", "p", "i", "/", "x">>}
ServiceRefs == {<<"a", "p", "i">>, <<"o", "r", "d", "e", "r", "s">>}
ConnIds == {1, 2}
Captures == [repo : ConnIds, kind : {"endpoint", "call"}, text : RawPaths]
            \cup [repo : ConnIds, kind : {"service"}, text : ServiceRefs]
CaptureLists == UNION {[1..n -> Captures] : n \in 0..MaxCaptures}
IdLists == UNION {Orders(S) : S \in SUBSET ConnIds}

\* what the patterns of one kind capture in the file of repository id
CapturedIn(items, id, kind) ==
    LET own == SelectSeq(items, LAMBDA c : c.repo = id /\ c.kind = kind)
    IN  [k \in 1..Len(own) |-> own[k].text]

\* analyze(repositories) is called with the scanned records; a record
\* without analyzed files has no file for a pattern to capture in
ConnInput ==
    /\ conn_pc = "start"
    /\ \E ids \in IdLists, names \in [ConnIds -> RepoNameChoices], items \in CaptureLists :
        \E files \in {f \in [ConnIds -> 0..1] : \A k \in 1..Len(items) : f[items[k].repo] = 1} :
            conn_repos = [i \in 1..Len(ids) |->
                            [id |-> ids[i], name |-> names[ids[i]],
                             analyzed_files |-> files[ids[i]],
                             endpoints |-> CapturedIn(items, ids[i], "endpoint"),
                             calls |-> CapturedIn(items, ids[i], "call"),
                             services |-> CapturedIn(items, ids[i], "service")]]
    /\ api_endpoints = <<>>
    /\ apis = [id \in ConnIds |-> <<>>]
    /\ dependencies = [id \in ConnIds |-> NoDependencies]

Listed(id) == \E i \in 1..Len(conn_repos) : conn_repos[i].id = id
Repo(id) == conn_repos[CHOOSE i \in 1..Len(conn_repos) : conn_repos[i].id = id]

\* analyze lines 73-74: nothing to analyze
AnalyzeNothing ==
    /\ conn_pc = "start"
    /\ conn_repos = <<>>
    /\ conn_pc' = "done"
    /\ UNCHANGED <<conn_repos, api_endpoints, apis, dependencies>>
    /\ UNCHANGED nonConnVars

\* analyze line 79: _extract_api_endpoints
ExtractApiEndpoints ==
    /\ conn_pc = "start"
    /\ conn_repos # <<>>
    /\ api_endpoints' = IndexAll(<<>>, EndpointCaptures(conn_repos))
    /\ apis' = [id \in ConnIds |->
                 IF Listed(id)
                 THEN apis[id] \o [j \in 1..Len(Repo(id).endpoints) |->
                                     NormalizePath(Repo(id).endpoints[j])]
                 ELSE apis[id]]
    /\ conn_pc' = "extracted"
    /\ UNCHANGED <<conn_repos, dependencies>>
    /\ UNCHANGED nonConnVars

\* analyze line 82: _find_api_connections
FindApiConnections ==
    /\ conn_pc = "extracted"
    /\ dependencies' = [id \in ConnIds |->
         IF Listed(id)
         THEN [dependencies[id] EXCEPT !.repositories =
                 AddDependencies(@, ApiTargets(Repo(id), api_endpoints))]
         ELSE dependencies[id]]
    /\ conn_pc' = "connected"
    /\ UNCHANGED <<conn_repos, api_endpoints, apis>>
    /\ UNCHANGED nonConnVars

\* analyze line 85: _find_service_connections; the set repo_names is
\* iterated in some order
FindServiceConnections ==
    /\ conn_pc = "connected"
    /\ \E order \in Orders(RepoNames(conn_repos)) :
        dependencies' = [id \in ConnIds |->
          IF Listed(id)
          THEN [dependencies[id] EXCEPT !.services =
                  AddDependencies(@, ServiceTargets(Repo(id), conn_repos, order))]
          ELSE dependencies[id]]
    /\ conn_pc' = "done"
    /\ UNCHANGED <<conn_repos, api_endpoints, apis>>
    /\ UNCHANGED nonConnVars

NextConn == AnalyzeNothing \/ ExtractApiEndpoints \/ FindApiConnections
            \/ FindServiceConnections

InitConn == ConnInput /\ BaseIdle /\ cfg_steps = 0 /\ PathIdle /\ DepIdle /\ SummaryIdle /\ LateIdle

SpecConn == InitConn /\ [][NextConn]_vars

\* --------------------------------------------------- DependencyAnalyzer

RECURSIVE RemoveAll(_, _)
\* str.replace(t, '')
RemoveAll(s, t) ==
    IF s = <<>> THEN <<>>
    ELSE IF StartsWith(s, t) THEN RemoveAll(SubSeq(s, Len(t) + 1, Len(s)), t)
    ELSE <<s[1]>> \o RemoveAll(Tail(s), t)

\* find_cross_repo_dependencies line 230
SimpleName(repo_name) ==
    LET parts == Split(repo_name, "/")
    IN  RemoveAll(parts[Len(parts)], <<".", "g", "i", "t">>)

\* find_cross_repo_dependencies lines 234-242
Variations(simple_name) ==
    << simple_name \o <<"-", "l", "i", "b">>,
       simple_name \o <<"-", "a", "p", "i">>,
       simple_name \o <<"-", "c", "l", "i", "e", "n", "t">>,
       simple_name \o <<"-", "s", "e", "r", "v", "i", "c", "e">>,
       <<"l", "i", "b", "-">> \o simple_name,
       <<"a", "p", "i", "-">> \o simple_name,
       simple_name \o <<"-", "s", "d", "k">> >>

\* d[key] = value on a dict kept in insertion order
SetItem(d, key, value) ==
    IF \E i \in 1..Len(d) : d[i].key = key
    THEN [i \in 1..Len(d) |-> IF d[i].key = key THEN [key |-> key, value |-> value] ELSE d[i]]
    ELSE Append(d, [key |-> key, value |-> value])

RECURSIVE SetItems(_, _, _)
SetItems(d, keys, value) ==
    IF keys = <<>> THEN d ELSE SetItems(SetItem(d, Head(keys), value), Tail(keys), value)

\* find_cross_repo_dependencies lines 227-244
RECURSIVE RepoPackages(_, _)
RepoPackages(d, data) ==
    IF data = <<>> THEN d
    ELSE LET repo_name == Head(data).name
         IN  RepoPackages(SetItems(d, <<SimpleName(repo_name)>> \o Variations(SimpleName(repo_name)),
                                   repo_name),
                          Tail(data))

\* the first occurrences of a sequence, in order
RECURSIVE AppendNew(_, _)
AppendNew(list, items) ==
    IF items = <<>> THEN list
    ELSE AppendNew(IF Head(items) \in Range(list) THEN list ELSE Append(list, Head(items)),
                   Tail(items))

\* find_cross_repo_dependencies lines 248-259 for one repository
CrossDependencies(repo, packages) ==
    AppendNew(<<>>,
        Flatten([j \in 1..Len(repo.deps) |->
            LET dep_name == Lower(repo.deps[j])
                hit == SelectSeq(packages, LAMBDA pk :
                         Contains(dep_name, Lower(pk.key)) /\ pk.value # repo.name)
            IN  [k \in 1..Len(hit) |-> hit[k].value]]))

\* DependencyAnalyzer.find_cross_repo_dependencies
FindCrossRepoDependenciesResult(data) ==
    LET packages == RepoPackages(<<>>, data)
        all == [i \in 1..Len(data) |->
                 [key |-> data[i].name, value |-> CrossDependencies(data[i], packages)]]
    IN  SelectSeq(all, LAMBDA en : en.value # <<>>)

\* DependencyAnalyzer.parse_dependencies: the entries appended before the
\* exception, if one is raised, are returned
ParseDependencies(file) ==
    LET read == IF file.raise_at < 0 THEN file.entries
                ELSE SubSeq(file.entries, 1, file.raise_at)
    IN  [k \in 1..Len(read) |-> [name |-> read[k], type |-> file.type]]

RECURSIVE Sum(_)
Sum(ns) == IF ns = <<>> THEN 0 ELSE Head(ns) + Sum(Tail(ns))

\* DependencyAnalyzer.analyze_repository lines 276-304
AnalyzeRepositoryResult(files) ==
    LET parsed == [i \in 1..Len(files) |->
                     [path |-> i, type |-> files[i].type,
                      dependencies |-> ParseDependencies(files[i])]]
        kept == SelectSeq(parsed, LAMBDA f : f.dependencies # <<>>)
    IN  [dependency_files |-> kept,
         total_dependencies |-> Sum([i \in 1..Len(kept) |-> Len(kept[i].dependencies)]),
         dependency_types |->
            [t \in {kept[i].type : i \in 1..Len(kept)} |->
                Sum([i \in 1..Len(kept) |->
                       IF kept[i].type = t THEN Len(kept[i].dependencies) ELSE 0])]]

\* the inputs: repository names as repos_data keys them, manifest
\* dependency names, manifest files
DataNames == {<<"g", "/", "d", "b">>, <<"h", "/", "d", "b">>,
              <<"d", "b", "-", "a", "p", "i">>, <<"a", "p", "p", ".", "g", "i", "t">>}
DepNames == {<<"D", "B", "-", "l", "i", "b">>, <<"d", "b", "-", "a", "p", "i">>,
             <<"f", "l", "a", "s", "k">>}
DepLists == UNION {[1..n -> DepNames] : n \in 0..MaxEntries}
DataLists == {d \in UNION {[1..n -> [name : DataNames, deps : DepLists]] : n \in 1..MaxDataRepos} :
                \A i, j \in DOMAIN d : d[i].name = d[j].name => i = j}
ManifestTypes == {"npm", "python"}
Manifests == {f \in [type : ManifestTypes, entries : DepLists, raise_at : -1..MaxEntries] :
                f.raise_at <= Len(f.entries)}
ManifestLists == UNION {[1..n -> Manifests] : n \in 1..MaxManifests}

NoResult == [dependency_files |-> <<>>, total_dependencies |-> 0,
             dependency_types |-> <<>>]

\* find_cross_repo_dependencies or analyze_repository is called
DepInput ==
    /\ cross_repo_deps = <<>>
    /\ dep_result = NoResult
    /\ \/ dep_pc = "cross" /\ repos_data \in DataLists /\ dep_files = <<>>
       \/ dep_pc = "analyze" /\ repos_data = <<>> /\ dep_files \in ManifestLists

FindCrossRepoDependencies ==
    /\ dep_pc = "cross"
    /\ cross_repo_deps' = FindCrossRepoDependenciesResult(repos_data)
    /\ dep_pc' = "crossed"
    /\ UNCHANGED <<repos_data, dep_files, dep_result>>
    /\ UNCHANGED nonDepVars

AnalyzeRepository ==
    /\ dep_pc = "analyze"
    /\ dep_result' = AnalyzeRepositoryResult(dep_files)
    /\ dep_pc' = "analyzed"
    /\ UNCHANGED <<repos_data, dep_files, cross_repo_deps>>
    /\ UNCHANGED nonDepVars

NextDep == FindCrossRepoDependencies \/ AnalyzeRepository

InitDep == DepInput /\ BaseIdle /\ cfg_steps = 0 /\ PathIdle /\ ConnIdle /\ SummaryIdle /\ LateIdle

SpecDep == InitDep /\ [][NextDep]_vars

\* ------------------------------------------------------ generate_summary

\* the keys of Repository.technologies, in dict order
CategoryOrder == <<"frontend", "backend", "database", "infrastructure", "cicd">>

\* Repository.__init__ lines 47-52
NoDocumentation == [readme |-> "None", api_docs |-> <<>>,
                    setup_instructions |-> <<>>, architecture |-> <<>>]

\* tech_name not in all_technologies[category] (line 68): the list holds
\* the {'name', 'count'} dicts, which a str never equals
NameInEntries(tech_name, entries) == FALSE

\* generate_summary lines 68-78 for one encountered technology
CountTechnology(entries, tech_name) ==
    IF ~NameInEntries(tech_name, entries)
    THEN Append(entries, [name |-> tech_name, count |-> 1])
    ELSE LET first == CHOOSE i \in 1..Len(entries) :
                        /\ entries[i].name = tech_name
                        /\ \A j \in 1..(i - 1) : entries[j].name # tech_name
         IN  [entries EXCEPT ![first].count = @ + 1]

RECURSIVE CountTechnologies(_, _)
CountTechnologies(entries, names) ==
    IF names = <<>> THEN entries
    ELSE CountTechnologies(CountTechnology(entries, Head(names)), Tail(names))

\* sorted(entries, key=count, reverse=True): stable, highest count first
RECURSIVE SortedByCount(_)
SortedByCount(entries) ==
    IF entries = <<>> THEN <<>>
    ELSE LET top == CHOOSE i \in 1..Len(entries) :
                      /\ \A j \in 1..Len(entries) : entries[j].count <= entries[i].count
                      /\ \A j \in 1..(i - 1) : entries[j].count < entries[i].count
         IN  <<entries[top]>> \o
             SortedByCount(SubSeq(entries, 1, top - 1) \o SubSeq(entries, top + 1, Len(entries)))

\* the scanned records of the list, in list order (lines 53-55)
Scanned(repos) == SelectSeq(repos, LAMBDA r : r.scanned)

\* the technology names met in one category, in encounter order
Encountered(repos, category) ==
    Flatten([i \in 1..Len(Scanned(repos)) |->
        [k \in 1..Len(Scanned(repos)[i].technologies[category]) |->
            Scanned(repos)[i].technologies[category][k].name]])

\* the technology names of one record, in encounter order (repo_techs)
RepoTechs(r) ==
    Flatten([c \in 1..Len(CategoryOrder) |->
        [k \in 1..Len(r.technologies[CategoryOrder[c]]) |->
            r.technologies[CategoryOrder[c]][k].name]])

\* the categories in the order all_technologies first meets them
CategoriesMet(repos) ==
    AppendNew(<<>>,
        Flatten([i \in 1..Len(Scanned(repos)) |->
            SelectSeq(CategoryOrder,
                      LAMBDA c : Scanned(repos)[i].technologies[c] # <<>>)]))

\* technology_counts (lines 44, 65) and most_common(10) (line 122)
TopTechnologies(repos) ==
    LET met == Flatten([i \in 1..Len(Scanned(repos)) |-> RepoTechs(Scanned(repos)[i])])
        names == AppendNew(<<>>, met)
        counted == [k \in 1..Len(names) |->
                      [name |-> names[k],
                       count |-> Cardinality({j \in 1..Len(met) : met[j] = names[k]})]]
        sorted == SortedByCount(counted)
    IN  SubSeq(sorted, 1, Min(TopCount, Len(sorted)))

\* _summarize_repo_documentation
SummarizeRepoDocumentation(r) ==
    [has_readme |-> r.documentation.readme # "None",
     has_api_docs |-> Len(r.documentation.api_docs) > 0,
     has_setup_instructions |-> Len(r.documentation.setup_instructions) > 0,
     has_architecture_info |-> Len(r.documentation.architecture) > 0]

\* _generate_documentation_summary
GenerateDocumentationSummary(repos) ==
    LET s == Scanned(repos)
        with(F(_)) == Cardinality({i \in 1..Len(s) : F(s[i])})
    IN  [repos_with_readme |-> with(LAMBDA r : r.documentation.readme # "None"),
         repos_with_api_docs |-> with(LAMBDA r : r.documentation.api_docs # <<>>),
         repos_with_setup |-> with(LAMBDA r : r.documentation.setup_instructions # <<>>),
         repos_with_architecture |-> with(LAMBDA r : r.documentation.architecture # <<>>),
         total_repositories |-> Len(repos),
         setup_instructions |->
            Flatten([i \in 1..Len(s) |->
                [k \in 1..Len(s[i].documentation.setup_instructions) |->
                    [repository |-> s[i].name,
                     path |-> s[i].documentation.setup_instructions[k].path,
                     type |-> s[i].documentation.setup_instructions[k].type]]]),
         architecture_overview |->
            Flatten([i \in 1..Len(s) |->
                [k \in 1..Len(s[i].documentation.architecture) |->
                    [repository |-> s[i].name,
                     path |-> s[i].documentation.architecture[k].path,
                     type |-> s[i].documentation.architecture[k].type]]])]

\* the connection entries of one kind (lines 84-98)
ConnectionEntries(repos, kind, type) ==
    Flatten([i \in 1..Len(Scanned(repos)) |->
        [k \in 1..Len(Scanned(repos)[i].dependencies[kind]) |->
            [source |-> Scanned(repos)[i].name,
             target |-> Scanned(repos)[i].dependencies[kind][k],
             type |-> type]]])

\* generate_summary: the structure returned
GenerateSummaryResult(repos) ==
    IF repos = <<>>
    THEN [summary |-> [total_repositories |-> 0, scanned_repositories |-> 0,
                       total_technologies |-> 0, top_technologies |-> <<>>],
          repositories |-> <<>>,
          technologies |-> <<>>,
          connections |-> [api_connections |-> <<>>, service_dependencies |-> <<>>],
          documentation |-> <<>>]
    ELSE [summary |->
            [total_repositories |-> Len(repos),
             scanned_repositories |-> Len(Scanned(repos)),
             total_technologies |->
                Cardinality(UNION {Range(RepoTechs(r)) : r \in Range(Scanned(repos))}),
             top_technologies |-> TopTechnologies(repos)],
          repositories |->
            [i \in 1..Len(Scanned(repos)) |->
                LET r == Scanned(repos)[i]
                IN  [id |-> r.id, name |-> r.name,
                     technologies |-> RepoTechs(r),
                     apis |-> Len(r.apis),
                     documentation |-> SummarizeRepoDocumentation(r),
                     connections |-> [dependencies |-> r.dependencies.repositories,
                                      services |-> r.dependencies.services]]],
          technologies |->
            [c \in 1..Len(CategoriesMet(repos)) |->
                [category |-> CategoriesMet(repos)[c],
                 techs |-> SortedByCount(
                    CountTechnologies(<<>>, Encountered(repos, CategoriesMet(repos)[c])))]],
          connections |->
            [api_connections |-> ConnectionEntries(repos, "repositories", "api"),
             service_dependencies |-> ConnectionEntries(repos, "services", "service")],
          documentation |-> GenerateDocumentationSummary(repos)]

\* a summary builder that moves the connection lists out of the records
RecordsDrained(repos) ==
    [i \in 1..Len(repos) |-> [repos[i] EXCEPT !.dependencies = NoDependencies]]

\* generate_summary lines 53-113: the input records after the call; no
\* statement assigns to a record or to an object reachable from one
RecordsAfterSummary(repos) == repos

\* the inputs: the records scan() collected, as the detectors and the
\* connection analyzer left them
FrontendChoices == {<<>>, <<[name |-> "flask"]>>}
BackendChoices == {<<>>, <<[name |-> "flask"]>>, <<[name |-> "django"]>>,
                   <<[name |-> "flask"], [name |-> "django"]>>,
                   <<[name |-> "django"], [name |-> "flask"]>>}
RepositoryDependencyChoices == {<<>>, <<"r1">>}
SummaryRecord(i, scanned, frontend, backend, deps) ==
    [id |-> i, name |-> IF i = 1 THEN "r1" ELSE IF i = 2 THEN "r2" ELSE "r3",
     scanned |-> scanned,
     technologies |-> [c \in Range(CategoryOrder) |->
                         IF c = "frontend" THEN frontend
                         ELSE IF c = "backend" THEN backend ELSE <<>>],
     apis |-> <<>>,
     dependencies |-> [NoDependencies EXCEPT !.repositories = deps],
     documentation |-> NoDocumentation]
SummaryInputs ==
    UNION {{[i \in 1..n |-> SummaryRecord(i, ch[i].scanned, ch[i].frontend,
                                          ch[i].backend, ch[i].deps)] :
              ch \in [1..n -> [scanned : BOOLEAN, frontend : FrontendChoices,
                               backend : BackendChoices,
                               deps : RepositoryDependencyChoices]]} :
           n \in 0..MaxSummaryRepos}

\* generate_summary is about to be called on the scanner's list
SummaryInput ==
    /\ sum_repos \in SummaryInputs
    /\ summary = <<>>
    /\ sum_calls = 0

\* generate_summary(repositories)
GenerateSummary ==
    /\ sum_calls < MaxSummaryCalls
    /\ summary' = GenerateSummaryResult(sum_repos)
    /\ sum_repos' = RecordsAfterSummary(sum_repos)
    /\ sum_calls' = sum_calls + 1
    /\ UNCHANGED nonSummaryVars

NextSummary == GenerateSummary

InitSummary == SummaryInput /\ BaseIdle /\ cfg_steps = 0 /\ PathIdle /\ ConnIdle /\ DepIdle /\ LateIdle

SpecSummary == InitSummary /\ [][NextSummary]_vars

\* ------------------------------------------- Config and the scan pool
Max(a, b) == IF a >= b THEN a ELSE b

\* what a config file holds under "scanning": any JSON integers, keys
\* possibly missing
FileConcurrency == {0, 3, 50}
FileTimeouts == {5, 60, 600}
LoadedConfigs == [has_concurrent_scans : BOOLEAN, concurrent_scans : FileConcurrency,
                  has_timeout_seconds : BOOLEAN, timeout_seconds : FileTimeouts]

\* what the user types at a prompt of the performance menu: digits with a
\* value, or anything else (nothing, a sign, letters)
MenuConcurrency == {0, 7, 99}
MenuTimeouts == {5, 45, 999}
MenuInputs(values) == [isdigit : BOOLEAN, value : values]

\* Config._merge_config on the "scanning" section: a loaded key replaces
\* the value
MergeConfig(base, update) ==
    [base EXCEPT
        !.concurrent_scans = IF update.has_concurrent_scans
                             THEN update.concurrent_scans ELSE @,
        !.timeout_seconds = IF update.has_timeout_seconds
                            THEN update.timeout_seconds ELSE @]

\* max(low, min(high, int(text))) of the menu, lines 376 and 383
Clamp(low, high, value) == Max(low, Min(high, value))

\* Config.load_config (Config.__init__ with a file, or the menu's load);
\* a file that cannot be read or parsed changes nothing
LoadConfig ==
    /\ pc = "get_group"
    /\ cfg_steps < MaxConfigSteps
    /\ \/ \E loaded \in LoadedConfigs : config' = MergeConfig(config, loaded)
       \/ config' = config
    /\ cfg_steps' = cfg_steps + 1
    /\ UNCHANGED <<pc, projects, max_workers, submitted, future, thread, pos,
                   result, elapsed, record, repositories, completed, collected,
                   log, analyzer_idx, raised, techVars,
                   pathVars, connVars, depVars, summaryVars, lateVars>>

\* configure_performance_settings lines 369-383: the copy of the scanning
\* section with what the user typed, digits clamped to the menu's ranges
PerformanceSettings(cfg, new_concurrency, new_timeout) ==
    [cfg EXCEPT
        !.concurrent_scans =
            IF new_concurrency.isdigit
            THEN Clamp(MinConcurrentScans, MaxConcurrentScans, new_concurrency.value)
            ELSE @,
        !.timeout_seconds =
            IF new_timeout.isdigit
            THEN Clamp(MinTimeoutSeconds, MaxTimeoutSeconds, new_timeout.value)
            ELSE @]

\* Config.set(section, key) lines 93-101, value left None, with a dict as
\* key: key is not None, so line 101 indexes the section with it; a dict is
\* unhashable, TypeError is raised and the configuration is as it was
SetDictKey(cfg, key) == [config |-> cfg, raised |-> "TypeError"]

\* configure_performance_settings and config.set('scanning', settings) of
\* the settings menu (menu.py line 214); nothing up to main() catches
ConfigurePerformanceSettings ==
    /\ pc = "get_group"
    /\ cfg_steps < MaxConfigSteps
    /\ \E new_concurrency \in MenuInputs(MenuConcurrency),
          new_timeout \in MenuInputs(MenuTimeouts) :
        LET settings == PerformanceSettings(config, new_concurrency, new_timeout)
            outcome == SetDictKey(config, settings)
        IN  /\ config' = outcome.config
            /\ raised' = outcome.raised
            /\ pc' = "raised"
    /\ cfg_steps' = cfg_steps + 1
    /\ UNCHANGED <<projects, max_workers, submitted, future, thread, pos,
                   result, elapsed, record, repositories, completed, collected,
                   log, analyzer_idx, techVars,
                   pathVars, connVars, depVars, summaryVars, lateVars>>

\* the timeout thread.join is called with: the decorator's argument
TimeoutInForce == DecoratorSeconds

\* Config(): the defaults; then files are loaded and menus used, then
\* scan() sizes its pool
InitConfig == BaseIdle /\ PureIdle

NextConfig == LoadConfig \/ ConfigurePerformanceSettings
              \/ GetGroup \/ ListProjects \/ MakePool

SpecConfig == InitConfig /\ [][NextConfig]_vars

\* ------------------------------- _scan_repository_files, file by file
\* One record is followed through the loop of lines 212-233, with the
\* detectors _load_detectors built.  The tree listing has succeeded.

\* GitLabScanner._load_detectors: the built-in detectors the configuration
\* enables, in load order, then one CustomDetector per custom pattern
LoadDetectors(enabled) ==
    SelectSeq(<<"frontend", "backend", "database", "infrastructure", "cicd", "custom">>,
              LAMBDA d : d \in enabled)

\* the detector classes that have a detect method: BaseDetector and its
\* subclasses; CICDDetector is no subclass and defines none
HasDetect(d) == d # "cicd"

\* _process_file lines 247-248: the detectors whose detect is called before
\* the loop is left, by its end or by the AttributeError of a detector
\* without detect
RECURSIVE DetectorsCalled(_)
DetectorsCalled(ds) ==
    IF ds = <<>> \/ ~HasDetect(Head(ds)) THEN <<>>
    ELSE <<Head(ds)>> \o DetectorsCalled(Tail(ds))

\* a handler of line 231 that lets every error but the not-found one pass
CaughtNotFoundOnly(outcome) == outcome = "not_found"

\* line 231, except (GitlabGetError, Exception): the failed fetch is caught
\* inside the loop
Caught(outcome) == outcome \in {"not_found", "error"}

\* the tree items: whether the path ends in a configured extension, and
\* what files.get and decode do for it
TreeItems == [matches : BOOLEAN, fetch : {"ok", "not_found", "error"}]
Trees == UNION {[1..n -> TreeItems] : n \in 0..MaxTreeItems}
EnabledChoices == SUBSET {"frontend", "cicd", "custom"}

\* _scan_project has created the record and the tree is listed
FilesInput ==
    /\ files_pc = "loop"
    /\ \E enabled \in EnabledChoices : detectors = LoadDetectors(enabled)
    /\ tree \in Trees
    /\ item = 0
    /\ scan_record = [analyzed_files |-> <<>>, scanned |-> FALSE]
    /\ fetched = <<>>
    /\ processed = <<>>
    /\ detect_calls = <<>>

\* _scan_repository_files lines 212-233: one tree item
ScanFile ==
    /\ files_pc = "loop"
    /\ item < Len(tree)
    /\ LET i == item + 1
           called == DetectorsCalled(detectors)
       IN  IF ~tree[i].matches
           THEN /\ item' = i
                /\ UNCHANGED <<scan_record, fetched, processed, detect_calls>>
           ELSE IF tree[i].fetch # "ok"
           THEN /\ fetched' = Append(fetched, i)
                /\ item' = IF Caught(tree[i].fetch) THEN i ELSE Len(tree)
                /\ UNCHANGED <<scan_record, processed, detect_calls>>
           ELSE /\ fetched' = Append(fetched, i)
                /\ processed' = Append(processed, i)
                /\ detect_calls' = detect_calls \o [k \in 1..Len(called) |-> <<i, called[k]>>]
                /\ scan_record' =
                     IF Len(called) = Len(detectors)
                     THEN [scan_record EXCEPT !.analyzed_files = Append(@, i)]
                     ELSE scan_record
                /\ item' = i
    /\ UNCHANGED <<files_pc, detectors, tree>>
    /\ UNCHANGED nonFilesVars

\* the loop is over; _scan_project lines 175-177 mark the record scanned
\* and return it
ReturnRecord ==
    /\ files_pc = "loop"
    /\ item = Len(tree)
    /\ scan_record' = [scan_record EXCEPT !.scanned = TRUE]
    /\ files_pc' = "returned"
    /\ UNCHANGED <<detectors, tree, item, fetched, processed, detect_calls>>
    /\ UNCHANGED nonFilesVars

NextFiles == ScanFile \/ ReturnRecord

InitFiles == FilesInput /\ EarlyIdle /\ MatchIdle /\ RestIdle

SpecFiles == InitFiles /\ [][NextFiles]_vars

\* ------------------------------------------- _find_matching_endpoints
\* One call is followed: the client path is what line 200 passes, the
\* index is what _extract_api_endpoints built; both hold results of
\* _normalize_path.

MatchPaths == {<<"/">>,
               <<"/", "x">>,
               <<"/", "a", "p", "i">>,
               <<"/", "a", "p", "i", "/", "x">>,
               <<"/", "v", "/", "a", "p", "i", "/", "x">>}
MatchIndexes ==
    UNION {{[i \in 1..n |-> [path |-> f[i],
                             infos |-> <<[repo_id |-> i, repo_name |-> f[i]]>>]] :
              f \in {g \in [1..n -> MatchPaths] : \A i, j \in 1..n : g[i] = g[j] => i = j}} :
           n \in 0..MaxEndpoints}

\* _find_api_connections line 203 is about to call
MatchInput ==
    /\ match_pc = "call"
    /\ match_client \in MatchPaths
    /\ match_index \in MatchIndexes
    /\ matched = <<>>

\* _find_matching_endpoints(path, api_endpoints)
FindMatching ==
    /\ match_pc = "call"
    /\ matched' = FindMatchingEndpoints(match_client, match_index)
    /\ match_pc' = "matched"
    /\ UNCHANGED <<match_client, match_index>>
    /\ UNCHANGED nonMatchVars

NextMatch == FindMatching

InitMatch == MatchInput /\ EarlyIdle /\ FilesIdle /\ RestIdle

SpecMatch == InitMatch /\ [][NextMatch]_vars

\* ------------------------------------------- _process_file, one file

\* the add_technology call a detector makes for the file app.py: detect
\* passes the file's path, and what else it passes is the detector's matter
DetectReports ==
    [category : TechCategories, name : TechNames, confidence : Confidences,
     version : Versions, details : DetailsChoices]

\* _process_file lines 246-248: the technologies after the detectors have
\* run on the file in the order of the list ds
RECURSIVE ProcessFileResult(_, _)
ProcessFileResult(techs, ds) ==
    IF ds = <<>> THEN techs
    ELSE ProcessFileResult(
             AddTechnologyResult(techs, Head(ds).category, Head(ds).name,
                                 Head(ds).confidence, Head(ds).version,
                                 "app.py", Head(ds).details),
             Tail(ds))

\* the detectors loaded, and what each of them finds in the file
DetectInput ==
    /\ detect_pc = "loaded"
    /\ reports \in UNION {[1..n -> DetectReports] : n \in 0..MaxDetectors}

\* _process_file on a fresh record
RunDetectors ==
    /\ detect_pc = "loaded"
    /\ technologies' = ProcessFileResult(technologies, reports)
    /\ detect_pc' = "processed"
    /\ UNCHANGED <<reports, nonDetectVars>>

NextDetect == RunDetectors

InitDetect ==
    DetectInput /\ EarlyIdle /\ FilesIdle /\ MatchIdle /\ scan_calls = 0 /\ DefaultsIdle

SpecDetect == InitDetect /\ [][NextDetect]_vars

\* --------------------------------------- scan() called again

\* scan() called once more on the same GitLabScanner: the locals of lines
\* 97-125 start afresh, self.repositories is the list __init__ made (line
\* 35) and nothing in scan() empties it
ScanAgain ==
    /\ pc \in {"returned", "raised"}
    /\ scan_calls + 1 < MaxScans
    /\ scan_calls' = scan_calls + 1
    /\ pc' = "get_group"
    /\ projects' = 0
    /\ max_workers' = 0
    /\ submitted' = 0
    /\ future' = [p \in ProjectIds |-> "unsubmitted"]
    /\ thread' = [p \in ProjectIds |-> "unstarted"]
    /\ pos' = [p \in ProjectIds |-> 0]
    /\ result' = [p \in ProjectIds |-> "unset"]
    /\ elapsed' = [p \in ProjectIds |-> 0]
    /\ record' = [p \in ProjectIds |-> NoRecord]
    /\ completed' = 0
    /\ collected' = {}
    /\ log' = {}
    /\ analyzer_idx' = 0
    /\ raised' = "none"
    /\ UNCHANGED <<config, repositories, techVars, pathVars, connVars, depVars,
                   summaryVars, cfg_steps, filesVars, matchVars, detectVars,
                   defaultsVars>>

NextRescan ==
    \/ Next
    \/ ScanAgain

SpecRescan == Init /\ [][NextRescan]_vars

\* ------------------------------------ Config objects and the class dict
\* __init__ line 46 copies DEFAULT_CONFIG one level deep: the new object
\* has a top-level dict of its own whose values are the section dicts of
\* the class.  instances[i] maps the sections the object has replaced by a
\* dict of its own to that dict; every other section is the class's dict.

Sections == {"scanning", "detectors"}
Instances == 1..Len(instances)

\* self.config[section] of an object
Section(inst, section) ==
    IF section \in DOMAIN inst THEN inst[section] ELSE DEFAULT_CONFIG[section]

\* an in-place change of self.config[section] of object i: of the class's
\* dict when the object has none of its own for the section
WriteSection(i, section, value) ==
    IF section \in DOMAIN instances[i]
    THEN /\ instances' = [instances EXCEPT ![i][section] = value]
         /\ DEFAULT_CONFIG' = DEFAULT_CONFIG
    ELSE /\ DEFAULT_CONFIG' = [DEFAULT_CONFIG EXCEPT ![section] = value]
         /\ instances' = instances

\* the dicts a caller passes to set(section, value=...)
SectionDicts(section) ==
    IF section = "scanning"
    THEN [concurrent_scans : ConcurrencyChoices, timeout_seconds : {DefaultTimeoutSeconds}]
    ELSE {[custom_patterns |-> <<>>]}

CustomPatterns == {"p1", "p2"}

\* Config() without a config file, lines 44-50
NewConfig ==
    /\ config_calls < MaxConfigCalls
    /\ Len(instances) < MaxConfigs
    /\ instances' = Append(instances, <<>>)
    /\ config_calls' = config_calls + 1
    /\ UNCHANGED <<DEFAULT_CONFIG, nonDefaultsVars>>

\* load_config lines 52-61 and _merge_config lines 74-81 with a file that
\* holds a "scanning" dict: base['scanning'] is a dict, so the merge goes
\* into it key by key
LoadConfigFile(i) ==
    /\ config_calls < MaxConfigCalls
    /\ \E loaded \in LoadedConfigs :
        WriteSection(i, "scanning", MergeConfig(Section(instances[i], "scanning"), loaded))
    /\ config_calls' = config_calls + 1
    /\ UNCHANGED nonDefaultsVars

\* set('scanning', 'concurrent_scans', value), lines 98-101
SetValue(i) ==
    /\ config_calls < MaxConfigCalls
    /\ \E value \in ConcurrencyChoices :
        WriteSection(i, "scanning",
                     [Section(instances[i], "scanning") EXCEPT !.concurrent_scans = value])
    /\ config_calls' = config_calls + 1
    /\ UNCHANGED nonDefaultsVars

\* set(section, value=dict), lines 95-97: the section is bound to the dict
SetSection(i) ==
    /\ config_calls < MaxConfigCalls
    /\ \E section \in Sections : \E value \in SectionDicts(section) :
        instances' = [instances EXCEPT ![i] = (section :> value) @@ @]
    /\ config_calls' = config_calls + 1
    /\ UNCHANGED <<DEFAULT_CONFIG, nonDefaultsVars>>

\* add_custom_pattern lines 103-115: the key is there, the list is appended to
AddCustomPattern(i) ==
    /\ config_calls < MaxConfigCalls
    /\ \E pattern \in CustomPatterns :
        WriteSection(i, "detectors",
                     [Section(instances[i], "detectors") EXCEPT
                         !.custom_patterns = Append(@, pattern)])
    /\ config_calls' = config_calls + 1
    /\ UNCHANGED nonDefaultsVars

\* handle_config_profiles, menu.py lines 527-528: new_config = Config();
\* config.config = new_config.config
ResetToDefaults(i) ==
    /\ config_calls < MaxConfigCalls
    /\ instances' = [instances EXCEPT ![i] = <<>>]
    /\ config_calls' = config_calls + 1
    /\ UNCHANGED <<DEFAULT_CONFIG, nonDefaultsVars>>

NextDefaults ==
    \/ NewConfig
    \/ \E i \in Instances : LoadConfigFile(i)
    \/ \E i \in Instances : SetValue(i)
    \/ \E i \in Instances : SetSection(i)
    \/ \E i \in Instances : AddCustomPattern(i)
    \/ \E i \in Instances : ResetToDefaults(i)

InitDefaults == BaseIdle /\ PureIdle

SpecDefaults == InitDefaults /\ [][NextDefaults]_vars

\* ================================================================ claims

\* a step of the scan thread of project p
ThreadStepped(p) == thread'[p] # thread[p] \/ pos'[p] # pos[p]

\* the tree listing of project p raised
TreeFailed(p) == <<"tree_error", p>> \in log

\* the scans whose fetch/detect work is still executing
Executing == {p \in ProjectIds : Alive(p)}

\* the cross-repository analysis has started
AnalysisStarted == pc \in {"analysis", "returned", "raised"}

\* C1: when scan() has returned, no repository whose scan ran longer than the
\* configured timeout_seconds is in the completed set
C1_TimeoutSecondsEnforced ==
    pc = "returned" =>
        \A p \in Projects :
            elapsed[p] > config.timeout_seconds => ~InRepositories(p)

\* C2: once the project list is obtained scan() never ends by raising
C2_ScanNeverRaises == raised = "none"

\* C3: when scan() is past the scan phase, every repository whose tree listing
\* raised is absent from the completed set and reported as failed
C3_TreeFailureDropsRepository ==
    pc \in {"analysis", "returned"} =>
        \A p \in Projects :
            TreeFailed(p) =>
                /\ ~InRepositories(p)
                /\ <<"failed", p>> \in log \/ <<"error", p>> \in log

\* C4 as claimed: the scans still executing never number more than
\* min(concurrent_scans, N)
C4_ExecutingWithinPool ==
    pc \in {"pool", "analysis", "returned"} =>
        Cardinality(Executing) <= Min(config.concurrent_scans, projects)

\* C4 amended: the executing scans whose timeout has not fired never number
\* more than min(concurrent_scans, N); every further executing scan is one
\* abandoned by a timeout
C4_ExecutingWithinPoolPlusAbandoned ==
    pc \in {"pool", "analysis", "returned"} =>
        /\ Cardinality({p \in Executing : future[p] # "timeout"})
              <= Min(config.concurrent_scans, projects)
        /\ Cardinality(Executing)
              <= Min(config.concurrent_scans, projects)
                 + Cardinality({p \in ProjectIds : future[p] = "timeout"})

C4_Witness ==
    /\ Cardinality(Executing) = Min(config.concurrent_scans, projects) + 1
    /\ \E p \in Executing : future[p] = "timeout"
    /\ \E p \in Executing : future[p] = "running"

\* C5: a repository whose timeout has expired is never in the completed set,
\* whatever its abandoned scan thread does, and is reported as failed when the
\* collector handles it, which it has done when the scan phase is over
C5_TimedOutNeverCompleted ==
    \A p \in ProjectIds :
        future[p] = "timeout" =>
            /\ ~InRepositories(p)
            /\ p \in collected => <<"error", p>> \in log /\ <<"scanned", p>> \notin log
            /\ pc \in {"analysis", "returned"} => p \in collected

C5_Witness ==
    /\ pc = "returned"
    /\ \E p \in Projects :
        /\ future[p] = "timeout"
        /\ thread[p] = "done"
        /\ result[p] = "repo"
        /\ record[p].scanned

\* every submitted scan has finished: completed, failed or dropped
AllScansFinished ==
    /\ submitted = projects
    /\ \A p \in Projects : FutureDone(p) /\ p \in collected

\* C6 as claimed: analysis starts after every submitted scan has finished,
\* and from then on no scan thread mutates any Repository record
C6_NoScanMutationDuringAnalysis ==
    /\ [](pc = "analysis" => AllScansFinished)
    /\ [][AnalysisStarted =>
            \A p \in ProjectIds : ThreadStepped(p) => record' = record]_vars

\* C6 amended: analysis starts after every submitted scan has finished, and
\* from then on no scan thread mutates a record of the completed set (the
\* abandoned thread of a timed-out scan may still mutate its own dropped
\* record)
C6_NoScanMutationOfCompletedSet ==
    /\ [](pc = "analysis" => AllScansFinished)
    /\ [][AnalysisStarted =>
            \A p \in ProjectIds : ThreadStepped(p) =>
                \A q \in ProjectIds : InRepositories(q) => record'[q] = record[q]]_vars

C6_Witness ==
    /\ pc = "analysis"
    /\ analyzer_idx > 0
    /\ \E p \in Projects :
        /\ future[p] = "timeout"
        /\ record[p].created
        /\ Len(record[p].analyzed_files) > 0

\* C7: every append to the completed set is a step of the collector's loop,
\* none a step of a scan thread or pool worker, and a scan thread writes no
\* record but the one of the repository it scans
C7_SingleCollector ==
    /\ [][repositories' # repositories =>
            /\ \E p \in Projects :
                /\ collected' = collected \cup {p} /\ p \notin collected
                /\ repositories' = Append(repositories, p)
            /\ completed' = completed + 1
            /\ thread' = thread /\ pos' = pos /\ future' = future
            /\ record' = record]_vars
    /\ [][\A p \in ProjectIds : ThreadStepped(p) =>
            \A q \in ProjectIds \ {p} : record'[q] = record[q]]_vars

C7_Witness ==
    /\ Len(repositories) = 2
    /\ max_workers = 2
    /\ \A p \in Projects : record[p].scanned

\* C8: the scan phase ends although a fetch of one repository blocks for
\* ever; at its end every handle has been processed and a repository whose
\* scan is still blocked is dropped and reported as failed
C8_ScanPhaseTerminates ==
    /\ (pc = "pool") ~> (pc = "analysis")
    /\ [](pc = "analysis" =>
            \A p \in Projects :
                /\ p \in collected
                /\ Alive(p) => ~InRepositories(p) /\ <<"error", p>> \in log)

C8_Witness ==
    /\ pc = "analysis"
    /\ \E p \in Projects :
        /\ thread[p] = "tree"
        /\ <<"error", p>> \in log
        /\ \E q \in Projects : q # p /\ InRepositories(q)

\* the observations of (category, name) on the record
Observations(techs, c, n) ==
    IF c \in DOMAIN techs THEN {i \in 1..Len(techs[c]) : techs[c][i].name = n} ELSE {}

\* the stored observation of (category, name), when there is one
Stored(techs, c, n) == techs[c][CHOOSE i \in Observations(techs, c, n) : TRUE]

\* C9: each category holds at most one observation per technology name, and
\* its confidence is the highest ever supplied for that (category, name)
C9_OneObservationMaxConfidence ==
    \A c \in TechCategories, n \in TechNames :
        /\ Cardinality(Observations(technologies, c, n)) <= 1
        /\ max_supplied[c, n] > 0 =>
              /\ Cardinality(Observations(technologies, c, n)) = 1
              /\ Stored(technologies, c, n).confidence = max_supplied[c, n]

\* the same observation fed again after a stronger one: one entry, kept
C9_Witness ==
    /\ ncalls >= 2
    /\ Cardinality(Observations(technologies, call.category, call.name)) = 1
    /\ Len(technologies[call.category]) = 1
    /\ call.confidence < max_supplied[call.category, call.name]

\* an add_technology step for a (category, name) that has an observation
MergeStep(c, n) ==
    /\ ncalls' = ncalls + 1
    /\ call'.category = c /\ call'.name = n
    /\ Observations(technologies, c, n) # {}

\* C10 as claimed: on an existing observation a confidence that is not lower
\* overwrites version and details; a lower one changes nothing
C10_NotLowerOverwrites ==
    [][\A c \in TechCategories, n \in TechNames : MergeStep(c, n) =>
          LET old == Stored(technologies, c, n)
              new == Stored(technologies', c, n)
          IN  IF call'.confidence >= old.confidence
              THEN /\ new.version = call'.version
                   /\ new.extra = call'.details
              ELSE technologies' = technologies]_vars

\* C10 amended: on an existing observation a strictly higher confidence is
\* stored, a non-empty version replaces the stored one, non-empty details are
\* merged over the stored ones and a given path replaces detected_in; a lower
\* or equal confidence changes nothing
C10_HigherOverwrites ==
    [][\A c \in TechCategories, n \in TechNames : MergeStep(c, n) =>
          LET old == Stored(technologies, c, n)
              new == Stored(technologies', c, n)
          IN  IF call'.confidence > old.confidence
              THEN /\ new.confidence = call'.confidence
                   /\ new.version = IF call'.version \in {"None", ""}
                                    THEN old.version ELSE call'.version
                   /\ new.extra = [k \in DOMAIN old.extra \cup DOMAIN call'.details |->
                                     IF k \in DOMAIN call'.details
                                     THEN call'.details[k] ELSE old.extra[k]]
                   /\ new.detected_in = IF call'.path \in {"None", ""}
                                        THEN old.detected_in ELSE call'.path
                   /\ new.name = old.name
              ELSE technologies' = technologies]_vars

\* an equal confidence with another version has left the stored one alone
C10_Witness ==
    /\ ncalls >= 2
    /\ Observations(technologies, call.category, call.name) # {}
    /\ LET o == Stored(technologies, call.category, call.name)
       IN  /\ o.confidence = call.confidence
           /\ call.version = "2.0"
           /\ o.version = "1.0"

\* C11: path normalization is idempotent: normalizing a path that is
\* already the result of _normalize_path gives the same string back
C11_NormalizeIdempotent ==
    path_pc = "twice" => renormalized = normalized

\* C12: the three spellings of a parameter segment (:name, <name>, {name})
\* make no difference: the path written in any spelling normalizes to the
\* string the path as captured normalizes to
C12_SpellingsNormalizeAlike ==
    path_pc \in {"once", "twice"} =>
        \A sp \in Spellings : NormalizePath(RenderPath(template, sp)) = normalized

\* a URL with a parameter segment behind a literal one, written <name>,
\* has been normalized
C12_Witness ==
    /\ path_pc = "once"
    /\ spelling = "angle"
    /\ Len(template) = 4
    /\ template[1] = [kind |-> "lit", text |-> <<>>]
    /\ template[2] = [kind |-> "lit", text |-> <<"a">>]
    /\ template[3].kind = "param"
    /\ template[4] = [kind |-> "lit", text |-> <<>>]
    /\ normalized = <<"/", "a", "/">> \o ParamToken

\* the record of repository id after the analysis
OwnName(id) == Repo(id).name

\* C13: connection matching never creates a self-edge: after analyze no
\* record has its own name among its 'repositories' or 'services'
\* dependencies, also when two repositories share a name
C13_NoSelfEdge ==
    conn_pc = "done" =>
        \A id \in ConnIds : Listed(id) =>
            /\ OwnName(id) \notin Range(dependencies[id].repositories)
            /\ OwnName(id) \notin Range(dependencies[id].services)

\* C14: no dependency list of any record holds the same string twice
C14_NoDuplicateDependency ==
    \A id \in ConnIds : \A kind \in {"imports", "services", "repositories"} :
        LET list == dependencies[id][kind]
        IN  \A i, j \in 1..Len(list) : list[i] = list[j] => i = j

\* two matches of one file have produced the same target, stored once
C14_Witness ==
    /\ conn_pc = "done"
    /\ \E id \in ConnIds :
        /\ Listed(id)
        /\ Len(ApiTargets(Repo(id), api_endpoints)) >= 2
        /\ Len(dependencies[id].repositories) = 1

\* repository b has a client call whose normalized path is the normalized
\* path of an endpoint declaration of the other repository a
SamePathDeclaredAndCalled(a, b) ==
    /\ a # b /\ Listed(a) /\ Listed(b)
    /\ \E i \in 1..Len(Repo(a).endpoints), j \in 1..Len(Repo(b).calls) :
        NormalizePath(Repo(a).endpoints[i]) = NormalizePath(Repo(b).calls[j])

\* C15: exact normalized-path equality links the caller to the declarer:
\* when a declares and b calls the same normalized path, after analyze
\* b's 'repositories' dependencies contain a's name, in either list order
C15_ExactMatchLinks ==
    conn_pc = "done" =>
        \A a, b \in ConnIds : SamePathDeclaredAndCalled(a, b) =>
            OwnName(a) \in Range(dependencies[b].repositories)

\* the repository names T other than repo whose simple name, or one of its
\* seven variations, is a substring of a dependency name of repo, case
\* ignored
ExpectedCross(repo) ==
    {t \in {repos_data[i].name : i \in 1..Len(repos_data)} :
        /\ t # repo.name
        /\ \E j \in 1..Len(repo.deps) :
             \E v \in Range(<<SimpleName(t)>> \o Variations(SimpleName(t))) :
                Contains(Lower(repo.deps[j]), Lower(v))}

\* the list find_cross_repo_dependencies returned for a repository name
Returned(name) ==
    IF \E i \in 1..Len(cross_repo_deps) : cross_repo_deps[i].key = name
    THEN cross_repo_deps[CHOOSE i \in 1..Len(cross_repo_deps) :
                            cross_repo_deps[i].key = name].value
    ELSE <<>>

\* C16: find_cross_repo_dependencies returns for each repository exactly
\* the other repositories whose simple name or a variation of it is inside
\* one of its manifest dependency names, each once, never itself
C16_CrossDependenciesExact ==
    dep_pc = "crossed" =>
        \A i \in 1..Len(repos_data) :
            LET list == Returned(repos_data[i].name)
            IN  /\ Range(list) = ExpectedCross(repos_data[i])
                /\ \A a, b \in 1..Len(list) : list[a] = list[b] => a = b
                /\ repos_data[i].name \notin Range(list)

\* the manifest at position i raised while it was parsed
Raised(i) == dep_files[i].raise_at >= 0

\* C17: a manifest whose parsing raises contributes no dependency and no
\* count, and every other manifest is still parsed in full
C17_RaisingManifestContributesNothing ==
    dep_pc = "analyzed" =>
        /\ \A k \in 1..Len(dep_result.dependency_files) :
              ~Raised(dep_result.dependency_files[k].path)
        /\ dep_result.total_dependencies =
              Sum([i \in 1..Len(dep_files) |->
                     IF Raised(i) THEN 0 ELSE Len(dep_files[i].entries)])
        /\ \A i \in 1..Len(dep_files) :
              (~Raised(i) /\ dep_files[i].entries # <<>>) =>
                 \E k \in 1..Len(dep_result.dependency_files) :
                    /\ dep_result.dependency_files[k].path = i
                    /\ Len(dep_result.dependency_files[k].dependencies)
                         = Len(dep_files[i].entries)

ReposWith(category, tech_name) ==
    {i \in 1..Len(sum_repos) :
        /\ sum_repos[i].scanned
        /\ \E k \in 1..Len(sum_repos[i].technologies[category]) :
              sum_repos[i].technologies[category][k].name = tech_name}

\* where the technology is first met in the category
FirstMet(category, tech_name) ==
    CHOOSE k \in 1..Len(Encountered(sum_repos, category)) :
        /\ Encountered(sum_repos, category)[k] = tech_name
        /\ \A j \in 1..(k - 1) : Encountered(sum_repos, category)[j] # tech_name

\* C19: in the summary each category lists each distinct technology name
\* once, with the number of scanned repositories that have it, highest
\* count first and equal counts in first-encounter order
C19_TechnologyCounts ==
    sum_calls >= 1 =>
        \A c \in 1..Len(summary.technologies) :
            LET category == summary.technologies[c].category
                techs == summary.technologies[c].techs
            IN  /\ {techs[k].name : k \in 1..Len(techs)}
                      = Range(Encountered(sum_repos, category))
                /\ \A k, l \in 1..Len(techs) : techs[k].name = techs[l].name => k = l
                /\ \A k \in 1..Len(techs) :
                      techs[k].count = Cardinality(ReposWith(category, techs[k].name))
                /\ \A k, l \in 1..Len(techs) : k < l =>
                      \/ techs[k].count > techs[l].count
                      \/ /\ techs[k].count = techs[l].count
                         /\ FirstMet(category, techs[k].name)
                              <= FirstMet(category, techs[l].name)

\* scan() has computed max_workers for a group that lists projects
PoolSized == pc \in {"pool", "raised"} /\ projects >= 1

\* C20: whatever the configuration supplies, the pool size scan() uses is
\* between 1 and 20 and at most the number of project handles, and the
\* timeout in force for a repository is between 10 and 300 seconds
C20_PoolAndTimeoutInRange ==
    PoolSized =>
        /\ max_workers \in MinConcurrentScans..MaxConcurrentScans
        /\ max_workers <= projects
        /\ TimeoutInForce \in MinTimeoutSeconds..MaxTimeoutSeconds

\* scan() printed that the group or its project list could not be fetched
GroupFailed == <<"group_error", 0>> \in log \/ <<"projects_error", 0>> \in log

\* C21: when the group cannot be resolved or its projects cannot be listed,
\* scan() submits no repository scan, runs no analyzer, and ends by raising
\* to its caller, never by returning as a finished run does
C21_GroupFailureSurfaced ==
    GroupFailed =>
        /\ submitted = 0
        /\ \A p \in ProjectIds : future[p] = "unsubmitted" /\ thread[p] = "unstarted"
        /\ analyzer_idx = 0
        /\ pc # "returned"
        /\ raised # "none"

\* the tree items with an allowed extension whose fetch succeeded, in tree order
FetchedOk == SelectSeq([i \in 1..Len(tree) |-> i],
                       LAMBDA i : tree[i].matches /\ tree[i].fetch = "ok")

\* C22: when the record is returned, analyzed_files is the sequence, in
\* tree order, of the items with an allowed extension whose fetch
\* succeeded, and each of them was passed to every loaded detector
C22_AnalyzedFilesExact ==
    files_pc = "returned" =>
        /\ scan_record.analyzed_files = FetchedOk
        /\ \A i \in Range(FetchedOk) : \A k \in 1..Len(detectors) :
              <<i, detectors[k]>> \in Range(detect_calls)

\* C23: a matching item whose fetch fails is left out of analyzed_files and
\* reaches no detector, every later matching item is still fetched and,
\* if its fetch succeeds, processed, and the record is returned as scanned
C23_FailedFetchSkipsOnlyThatFile ==
    files_pc = "returned" =>
        /\ scan_record.scanned
        /\ \A i \in 1..Len(tree) : (tree[i].matches /\ tree[i].fetch # "ok") =>
              /\ i \notin Range(scan_record.analyzed_files)
              /\ i \notin Range(processed)
              /\ \A k \in 1..Len(detect_calls) : detect_calls[k][1] # i
              /\ \A j \in (i + 1)..Len(tree) : tree[j].matches =>
                    /\ j \in Range(fetched)
                    /\ tree[j].fetch = "ok" => j \in Range(processed)

\* a fetch error on the first file, a later file fetched, run through the
\* detectors and recorded
C23_Witness ==
    /\ files_pc = "returned"
    /\ Len(tree) = 3
    /\ tree[1] = [matches |-> TRUE, fetch |-> "error"]
    /\ tree[2] = [matches |-> TRUE, fetch |-> "not_found"]
    /\ tree[3] = [matches |-> TRUE, fetch |-> "ok"]
    /\ scan_record.analyzed_files = <<3>>
    /\ detect_calls = <<<<3, "frontend">>, <<3, "custom">>>>

\* the client path as _find_matching_endpoints compares it
NormClient == NormalizePath(match_client)

ApiPrefix == <<"/", "a", "p", "i">>

\* one of the two paths is a substring of the other
Contained(en) == Contains(NormClient, en.path) \/ Contains(en.path, NormClient)

\* both paths begin with /api/ and are equal behind it
SuffixEqual(en) ==
    /\ StartsWith(en.path, ApiPrefix \o <<"/">>)
    /\ StartsWith(NormClient, ApiPrefix \o <<"/">>)
    /\ SubSeq(en.path, 6, Len(en.path)) = SubSeq(NormClient, 6, Len(NormClient))

ExactIndexed == \E i \in 1..Len(match_index) : match_index[i].path = NormClient

\* C24: the tiers apply in order and the first that matches wins: with an
\* indexed path equal to the normalized client path the result is that
\* entry alone; otherwise every entry returned is a containment match or a
\* suffix-equality match, and one that is only a suffix-equality match is
\* returned only when no containment match is
C24_TiersInOrder ==
    match_pc = "matched" =>
        IF ExactIndexed
        THEN /\ Len(matched) = 1
             /\ matched[1] \in Range(match_index)
             /\ matched[1].path = NormClient
        ELSE \A k \in 1..Len(matched) :
                /\ matched[k] \in Range(match_index)
                /\ Contained(matched[k]) \/ SuffixEqual(matched[k])
                /\ ~Contained(matched[k]) =>
                      \A j \in 1..Len(matched) : ~Contained(matched[j])

\* an exact match returned alone although a shorter /api path of the index
\* is inside the client path, and a containment match returned where no
\* path is equal
C24_Witness ==
    /\ match_pc = "matched"
    /\ \/ /\ match_client = ApiPrefix \o <<"/", "x">>
          /\ Len(match_index) = 2
          /\ match_index[1].path = ApiPrefix
          /\ matched = <<match_index[2]>>
       \/ /\ match_client = <<"/", "v">> \o ApiPrefix \o <<"/", "x">>
          /\ Len(match_index) = 2
          /\ matched = match_index

\* C25: without an exact match, an indexed path matches the client path
\* whenever one is a substring of the other and at least one of the two
\* begins with /api, and does not match when neither begins with /api
C25_ContainmentWithApiPrefix ==
    (match_pc = "matched" /\ ~ExactIndexed) =>
        \A i \in 1..Len(match_index) :
            LET en == match_index[i]
            IN  /\ (/\ Contained(en)
                    /\ StartsWith(en.path, ApiPrefix) \/ StartsWith(NormClient, ApiPrefix))
                       => en \in Range(matched)
                /\ (~StartsWith(en.path, ApiPrefix) /\ ~StartsWith(NormClient, ApiPrefix))
                       => en \notin Range(matched)

\* a service name or a quoted URL captured in the file of r holds the token
Referenced(r, t) ==
    \/ \E j \in 1..Len(r.services) : Contains(Lower(r.services[j]), t)
    \/ \E u \in QuotedUrls(r) : Contains(u, t)

\* C26: a service dependency of R on T is recorded only if a reference in
\* R's files matches a name token t with T's lowercase name equal to t, or
\* t longer than 5 characters and inside T's lowercase name; a token of 5
\* characters or fewer connects by equality only
C26_ServiceEdgeNeedsToken ==
    conn_pc = "done" =>
        \A id \in ConnIds : Listed(id) =>
            \A n \in Range(dependencies[id].services) :
                \E i \in 1..Len(conn_repos) : \E t \in RepoNames(conn_repos) :
                    /\ conn_repos[i].name = n
                    /\ Referenced(Repo(id), t)
                    /\ \/ Lower(n) = t
                       \/ Len(t) > 5 /\ Contains(Lower(n), t)

\* 'orders' in the file of 'api' has connected it to 'orders-api' by
\* containment, and 'api' in the file of 'orders-api' has connected it to
\* 'api' by equality
C26_Witness ==
    /\ conn_pc = "done"
    /\ Listed(1) /\ Listed(2)
    /\ Repo(1).name = <<"a", "p", "i">>
    /\ Repo(2).name = <<"o", "r", "d", "e", "r", "s", "-", "a", "p", "i">>
    /\ Repo(1).services = <<<<"o", "r", "d", "e", "r", "s">>>>
    /\ Repo(2).services = <<<<"a", "p", "i">>>>
    /\ dependencies[1].services = <<Repo(2).name>>
    /\ dependencies[2].services = <<Repo(1).name>>

\* the list without the record of repository id
Without(id) == SelectSeq(conn_repos, LAMBDA r : r.id # id)

\* the names a list of records gives as targets to the record r, whatever
\* the order its name tokens are visited in
ServiceTargetNames(r, repos) ==
    UNION {Range(ServiceTargets(r, repos, order)) : order \in Orders(RepoNames(repos))}

\* C27: a record with no analyzed file contributes nothing: no entry of the
\* endpoint index is its own, no name token is there because of it, its
\* dependency lists stay empty, and every other record has the
\* dependencies the list without it gives
C27_NoFilesNoContribution ==
    conn_pc = "done" =>
        \A z \in ConnIds : (Listed(z) /\ Repo(z).analyzed_files = 0) =>
            /\ \A i \in 1..Len(api_endpoints) : \A k \in 1..Len(api_endpoints[i].infos) :
                  api_endpoints[i].infos[k].repo_id # z
            /\ RepoNames(conn_repos) = RepoNames(Without(z))
            /\ dependencies[z] = NoDependencies
            /\ \A id \in ConnIds \ {z} : Listed(id) =>
                  /\ Range(dependencies[id].repositories)
                       = Range(ApiTargets(Repo(id), IndexAll(<<>>, EndpointCaptures(Without(z)))))
                  /\ Range(dependencies[id].services)
                       = ServiceTargetNames(Repo(id), Without(z))

\* Repository.__init__ lines 28-34: the technologies before the file
FreshTechnologies ==
    [c \in {"frontend", "backend", "database", "infrastructure", "cicd"} |-> <<>>]

\* the detectors' reports taken in the order o of their positions
Reordered(o) == [k \in 1..Len(o) |-> reports[o[k]]]

\* the same categories holding the same observations, the order of the
\* observations inside a category left aside
SameTechnologies(a, b) ==
    /\ DOMAIN a = DOMAIN b
    /\ \A c \in DOMAIN a : Range(a[c]) = Range(b[c])

\* C28: the technologies of the record after all detectors have run on one
\* file are the same for every order the detectors are invoked in, also when
\* two of them report the same (category, name) with equal confidence and
\* different version or details
C28_DetectorOrderIrrelevant ==
    detect_pc = "processed" =>
        \A o \in Orders(1..Len(reports)) :
            SameTechnologies(ProcessFileResult(FreshTechnologies, Reordered(o)), technologies)

\* C29: after any sequence of scan() calls on one GitLabScanner its
\* repositories list holds at most one record per project id
C29_OneRecordPerProject ==
    \A i, j \in 1..Len(repositories) :
        repositories[i] = repositories[j] => i = j

\* C30: a Config() made without a config file holds the documented default
\* values: no load_config, set(section, key, value) or add_custom_pattern
\* call on a Config object changes Config.DEFAULT_CONFIG, the values a
\* later Config() starts with, or what the menu's reset restores
C30_DefaultsNeverChange ==
    /\ DEFAULT_CONFIG = DocumentedDefaults
    /\ \A i \in Instances :
          DOMAIN instances[i] = {} =>
              \A section \in Sections :
                  Section(instances[i], section) = DocumentedDefaults[section]

====
